---- MODULE Spec2Model ----
(***************************************************************************)
(* Semantic memory engine of the customer-support agent: the embedding     *)
(* cache of OllamaClient, the MemoryManager over the vector store, fact    *)
(* extraction, and the context assembler buildContext.                     *)
(*                                                                         *)
(* Numbers that the source keeps as floats in [0,1] (importance,           *)
(* confidence, relevance) are kept here in hundredths (0.95 is 95).        *)
(***************************************************************************)
EXTENDS Integers, Sequences, FiniteSets, TLC

VARIABLES
    embeddingCache,   \* OllamaClient.embeddingCache: Map in insertion order, <<[key, vec]>>
    stats,            \* OllamaClient.stats: cacheHits, cacheMisses, totalEmbeddings
    providerCalls,    \* number of client.embeddings() requests sent to the provider
    callLog,          \* completed generateEmbedding calls, oldest first (observation)
    exMessage,        \* extractKeyFacts: interaction.userMessage
    exReply,          \* extractKeyFacts: outcome of the chat call and JSON.parse
    exResult,         \* extractKeyFacts: what the call gave its caller
    ctxMemories,      \* buildContext: the memories argument
    ctxMaxTokens,     \* buildContext: the maxTokens argument
    ctxOut,           \* buildContext: the sections joined into the returned text
    collection,       \* the ChromaDB collection: stored records, in insertion order
    nextId,           \* the next id uuidv4() hands out
    opCount,          \* MemoryManager operations completed
    clock,            \* Date.now(), in days
    faultInjected,    \* a provider or store request has failed in this behaviour
    lastOp,           \* the last MemoryManager operation and what its caller saw
    sessions,         \* agent.ts sessions: Map sessionId -> SessionState object (0: no entry)
    sessionObjects,   \* the SessionState objects created so far, by reference
    chats,            \* the chat requests in flight: where each one is and its locals
    requestCount,     \* requests received by the agent (chat, clear session)
    totalInteractions,\* SupportAgent.stats.totalInteractions
    pending           \* addMemory and generateEmbedding calls in flight, and their locals

cacheVars == <<embeddingCache, stats, providerCalls, callLog>>
extractVars == <<exMessage, exReply, exResult>>
ctxVars == <<ctxMemories, ctxMaxTokens, ctxOut>>
storeVars == <<collection, nextId, opCount, clock, faultInjected, lastOp>>
sessionVars == <<sessions, sessionObjects, chats, requestCount, totalInteractions, pending>>
vars == <<embeddingCache, stats, providerCalls, callLog, exMessage, exReply, exResult,
          ctxMemories, ctxMaxTokens, ctxOut, collection, nextId, opCount, clock, faultInjected,
          lastOp, sessions, sessionObjects, chats, requestCount, totalInteractions,
          pending>>

(***************************************************************************)
(* Bounds of the model.                                                    *)
(***************************************************************************)
NumTexts == 4        \* distinct texts handed to generateEmbedding
MaxCalls == 5        \* generateEmbedding calls in one behaviour
CacheCapacity == 2   \* MAX_CACHE_SIZE, scaled down from 1000
MaxRawFacts == 2     \* facts in one LLM reply
MaxCtxMemories == 3  \* memories handed to buildContext
MaxOps == 2          \* MemoryManager operations in one behaviour

Texts == 1..NumTexts

(***************************************************************************)
(* Embedding provider and cache (OllamaClient).                            *)
(***************************************************************************)

\* crypto sha256 of the exact text: deterministic and injective on Texts.
getCacheKey(text) == <<"sha256", text>>

\* The provider is a deterministic function text -> vector.
ProviderEmbedding(text) == <<"vec", text>>

\* Map.get(key): the value stored under key, or "undefined".
MapGet(map, key) ==
    IF \E i \in 1..Len(map) : map[i].key = key
    THEN (map[CHOOSE i \in 1..Len(map) : map[i].key = key]).vec
    ELSE "undefined"

\* Map.set(key, vec): an existing key keeps its position, a new key goes last.
MapSet(map, key, vec) ==
    IF \E i \in 1..Len(map) : map[i].key = key
    THEN [i \in 1..Len(map) |->
             IF map[i].key = key THEN [key |-> key, vec |-> vec] ELSE map[i]]
    ELSE Append(map, [key |-> key, vec |-> vec])

\* Mutant of cacheEmbedding: the computed vector is never written to the cache.
cacheEmbeddingSkip(map, text, embedding) == map

\* cacheEmbedding(text, embedding): evict the first key when full, then set.
cacheEmbedding(map, text, embedding) ==
    LET afterEvict == IF Len(map) >= CacheCapacity THEN Tail(map) ELSE map
    IN  MapSet(afterEvict, getCacheKey(text), embedding)

\* Mutant of CacheRead: a read refreshes the entry's position (true LRU).
CacheReadLRU(map, key) ==
    LET i == CHOOSE j \in 1..Len(map) : map[j].key = key
    IN  Append(SelectSeq(map, LAMBDA e : e.key # key), map[i])

\* The cache after a hit on key: Map.get leaves the order alone.
CacheRead(map, key) == map

\* generateEmbedding(text) with useCache = true, as a function of the client's
\* state.  providerOk: whether client.embeddings() answers (FALSE: it throws).
\* ok = FALSE: the call throws 'Embedding generation failed'.
generateEmbedding(cache, st, prov, text, providerOk) ==
    LET key    == getCacheKey(text)
        cached == MapGet(cache, key)
    IN  IF cached # "undefined"
        THEN [cache |-> CacheRead(cache, key),
              stats |-> [st EXCEPT !.totalEmbeddings = @ + 1, !.cacheHits = @ + 1],
              prov |-> prov, hit |-> TRUE, ok |-> TRUE, vec |-> cached]
        ELSE [cache |-> IF providerOk
                        THEN cacheEmbedding(cache, text, ProviderEmbedding(text))
                        ELSE cache,
              stats |-> [st EXCEPT !.totalEmbeddings = @ + 1, !.cacheMisses = @ + 1],
              prov |-> prov + 1, hit |-> FALSE, ok |-> providerOk,
              vec |-> IF providerOk THEN ProviderEmbedding(text) ELSE <<"error">>]

\* One generateEmbedding call, run to completion.
GenerateEmbedding(text, providerOk) ==
    LET e == generateEmbedding(embeddingCache, stats, providerCalls, text, providerOk)
    IN  /\ Len(callLog) < MaxCalls
        /\ embeddingCache' = e.cache
        /\ stats' = e.stats
        /\ providerCalls' = e.prov
        /\ callLog' = Append(callLog,
               [text |-> text, hit |-> e.hit, ok |-> e.ok, vec |-> e.vec,
                hitsBefore |-> stats.cacheHits, hitsAfter |-> e.stats.cacheHits,
                provBefore |-> providerCalls, provAfter |-> e.prov])

(***************************************************************************)
(* Strings.  A string the code inspects is a sequence of tokens (its       *)
(* words); String.includes and the regular expressions of the source are   *)
(* evaluated on token boundaries.  The vocabulary below is chosen so that  *)
(* no token contains another as a proper substring where the code tests    *)
(* for it, which makes the token-level test equal to the character-level.  *)
(***************************************************************************)

\* String.prototype.toLowerCase on one token.
LowerTok(tok) ==
    CASE tok = "My" -> "my"
      [] tok = "I" -> "i"
      [] tok = "Alice" -> "alice"
      [] tok = "ALICE" -> "alice"
      [] tok = "Bob" -> "bob"
      [] tok = "BOB" -> "bob"
      [] tok = "Al" -> "al"
      [] tok = "Acme" -> "acme"
      [] tok = "User's" -> "user's"
      [] tok = "USER'S" -> "user's"
      [] tok = "NAME" -> "name"
      [] tok = "IS" -> "is"
      [] tok = "User" -> "user"
      [] tok = "User:" -> "user:"
      [] tok = "Assistant:" -> "assistant:"
      [] tok = "Customer's" -> "customer's"
      [] tok = "Customer" -> "customer"
      [] tok = "Login" -> "login"
      [] tok = "PREFERENCE" -> "preference"
      [] tok = "Preference" -> "preference"
      [] tok = "GENERAL" -> "general"
      [] OTHER -> tok

toLowerCase(str) == [i \in 1..Len(str) |-> LowerTok(str[i])]

\* Tokens that do not start with a letter (a regex group [a-zA-Z]+ cannot start there).
NonAlphaTokens == {"42", "555-1234", " "}

PhraseAt(str, phrase, i) ==
    /\ i + Len(phrase) - 1 <= Len(str)
    /\ \A k \in 1..Len(phrase) : str[i + k - 1] = phrase[k]

\* String.prototype.includes
Includes(str, phrase) == \E i \in 1..Len(str) : PhraseAt(str, phrase, i)

\* str.match(/<phrase> ([a-zA-Z]+)/i): the captured word of the first match, as a
\* one-token sequence, or <<>> when the pattern does not match.
MatchWordAfter(str, phrase) ==
    LET lower == toLowerCase(str)
        hits  == {i \in 1..Len(str) :
                     /\ PhraseAt(lower, phrase, i)
                     /\ i + Len(phrase) <= Len(str)
                     /\ str[i + Len(phrase)] \notin NonAlphaTokens}
    IN  IF hits = {} THEN <<>>
        ELSE LET first == CHOOSE i \in hits : \A j \in hits : i <= j
             IN  <<str[first + Len(phrase)]>>

\* String.prototype.trim: whitespace tokens at both ends are dropped.
RECURSIVE TrimLeft(_)
TrimLeft(str) ==
    IF str # <<>> /\ Head(str) = " " THEN TrimLeft(Tail(str)) ELSE str

RECURSIVE TrimRight(_)
TrimRight(str) ==
    IF str # <<>> /\ str[Len(str)] = " "
    THEN TrimRight(SubSeq(str, 1, Len(str) - 1)) ELSE str

trim(str) == TrimRight(TrimLeft(str))

\* Length in characters of one token; "x501" stands for a word of 501 characters.
TokLen(tok) ==
    CASE tok = "x501" -> 501
      [] tok \in {" ", "I", "a"} -> 1
      [] tok \in {"My", "my", "is", "IS", "me", "am", "at", "Al", "42"} -> 2
      [] tok \in {"Bob"} -> 3
      [] tok \in {"name", "NAME", "call", "need", "dark", "mode", "work", "Acme"} -> 4
      [] tok \in {"Alice", "ALICE", "login", "Login", "hello"} -> 5
      [] tok \in {"User's", "USER'S", "broken", "prefer"} -> 6
      [] tok \in {"remember"} -> 8
      [] tok \in {"developer"} -> 9
      [] tok \in {"Customer's"} -> 10
      [] OTHER -> 7

\* String.prototype.length: the tokens and the single spaces between them.
RECURSIVE SumTokLen(_)
SumTokLen(str) == IF str = <<>> THEN 0 ELSE TokLen(Head(str)) + SumTokLen(Tail(str))

StrLength(str) == IF str = <<>> THEN 0 ELSE SumTokLen(str) + Len(str) - 1

Min(a, b) == IF a <= b THEN a ELSE b
Max(a, b) == IF a >= b THEN a ELSE b

(***************************************************************************)
(* Fact extraction (MemoryManager.extractKeyFacts and its helpers).        *)
(***************************************************************************)

\* A JSON value as the parsed LLM reply holds it: t is its JavaScript type,
\* n its value when a number (hundredths), s its value when a string.
JUndefined == [t |-> "undefined", n |-> 0, s |-> ""]
JNull == [t |-> "null", n |-> 0, s |-> ""]
JNum(n) == [t |-> "number", n |-> n, s |-> ""]
JStr(s) == [t |-> "string", n |-> 0, s |-> s]
JBool == [t |-> "boolean", n |-> 0, s |-> ""]

\* The content field: a string is a token sequence.
CUndefined == [t |-> "undefined", s |-> <<>>]
CNum == [t |-> "number", s |-> <<>>]
CStr(str) == [t |-> "string", s |-> str]

validTypes == {"conversation", "extracted_fact", "preference", "sentiment", "event"}
validCategories ==
    {"bug_report", "feature_request", "question", "feedback", "technical", "general"}

\* parseFloat(v): [nan |-> TRUE] or the number.  A number parses to itself, a
\* numeric string to its value, anything else (undefined, null, boolean,
\* non-numeric string) to NaN.
parseFloat(v) ==
    CASE v.t = "number" -> [nan |-> FALSE, n |-> v.n]
      [] v.t = "string" /\ v.s = "0.8" -> [nan |-> FALSE, n |-> 80]
      [] v.t = "string" /\ v.s = "0.3" -> [nan |-> FALSE, n |-> 30]
      [] OTHER -> [nan |-> TRUE, n |-> 0]

\* parseFloat(v) || dflt: NaN and 0 are falsy.
ParseOrDefault(v, dflt) ==
    LET p == parseFloat(v) IN IF p.nan \/ p.n = 0 THEN dflt ELSE p.n

\* Mutant of ParseOrDefault: only NaN takes the default (Number.isNaN test).
ParseOrDefaultNaNOnly(v, dflt) ==
    LET p == parseFloat(v) IN IF p.nan THEN dflt ELSE p.n

\* Math.min(Math.max(x, 0), 1)
Clamp01(x) == Min(Max(x, 0), 100)

\* v?.toLowerCase(): undefined for undefined/null, the lowered string for a
\* string, a TypeError for any other value (it has no toLowerCase method).
OptLower(v) ==
    CASE v.t \in {"undefined", "null"} -> [k |-> "undefined", s |-> ""]
      [] v.t = "string" -> [k |-> "string", s |-> LowerTok(v.s)]
      [] OTHER -> [k |-> "TypeError", s |-> ""]

NullFact == [content |-> <<>>, importance |-> 0, type |-> "", category |-> "",
             confidence |-> JUndefined]

\* validateExtractedFact(fact): k = "fact" with the sanitized fact, k = "null"
\* when the fact is rejected, k = "throw" when the function throws.
validateExtractedFact(raw) ==
    IF raw.obj = FALSE
    THEN [k |-> "null", fact |-> NullFact]
    ELSE IF raw.content.t # "string" \/ raw.content.s = <<>>
            \/ trim(raw.content.s) = <<>>
    THEN [k |-> "null", fact |-> NullFact]
    ELSE IF StrLength(raw.content.s) > 500
    THEN [k |-> "null", fact |-> NullFact]
    ELSE LET lt == OptLower(raw.type)
             lc == OptLower(raw.category)
         IN  IF lt.k = "TypeError"
             THEN [k |-> "throw", fact |-> NullFact]
             ELSE IF lc.k = "TypeError"
             THEN [k |-> "throw", fact |-> NullFact]
             ELSE LET type == IF lt.k = "string" /\ lt.s \in validTypes
                              THEN lt.s ELSE "extracted_fact"
                      category == IF lc.k = "string" /\ lc.s \in validCategories
                                  THEN lc.s ELSE "general"
                      importance == Clamp01(ParseOrDefault(raw.importance, 50))
                      confidence == Clamp01(ParseOrDefault(raw.confidence, 70))
                  IN  IF confidence < 50
                      THEN [k |-> "null", fact |-> NullFact]
                      ELSE [k |-> "fact",
                            fact |-> [content |-> trim(raw.content.s),
                                      importance |-> importance,
                                      type |-> type,
                                      category |-> category,
                                      confidence |-> JNum(confidence)]]

KeywordFact(content, type, category, importance) ==
    [content |-> content, importance |-> importance, type |-> type,
     category |-> category, confidence |-> JUndefined]

\* The text pushed by the "remember" branch of the keyword extractor.
RememberWhat(message) ==
    LET userMessage == toLowerCase(message) IN
    IF Includes(userMessage, <<"my", "name", "is">>)
    THEN LET m == MatchWordAfter(message, <<"my", "name", "is">>)
         IN  IF m # <<>> THEN <<"Customer's", "name", "is">> \o m ELSE message
    ELSE IF Includes(userMessage, <<"call", "me">>)
    THEN LET m == MatchWordAfter(message, <<"call", "me">>)
         IN  IF m # <<>> THEN <<"Customer", "prefers", "to", "be", "called">> \o m
             ELSE message
    ELSE IF \E i \in 1..Len(userMessage) :
                PhraseAt(userMessage, <<"i", "am">>, i) /\ i + 2 <= Len(userMessage)
    THEN LET m == MatchWordAfter(message, <<"i", "am">>)
         IN  IF m # <<>> /\ LowerTok(m[1]) \notin {"a", "the", "an", "having", "getting"}
             THEN <<"Customer", "is">> \o m ELSE message
    ELSE message

\* extractKeyFactsKeywordBased(interaction): the facts in the order pushed.
extractKeyFactsKeywordBased(message) ==
    LET userMessage == toLowerCase(message)
        has(w) == Includes(userMessage, w)
        remember ==
            IF \/ has(<<"remember">>) \/ has(<<"my", "name", "is">>)
               \/ has(<<"call", "me">>)
               \/ \E i \in 1..Len(userMessage) :
                      PhraseAt(userMessage, <<"i", "am">>, i) /\ i + 2 <= Len(userMessage)
            THEN <<KeywordFact(RememberWhat(message), "preference", "general", 95)>>
            ELSE <<>>
        bug ==
            IF \/ has(<<"broken">>) \/ has(<<"not", "working">>)
               \/ has(<<"error">>) \/ has(<<"bug">>)
            THEN <<KeywordFact(<<"Customer", "reported:">> \o message,
                               "event", "bug_report", 80)>>
            ELSE <<>>
        feature ==
            IF \/ has(<<"want">>) \/ has(<<"need">>)
               \/ has(<<"would", "like">>) \/ has(<<"feature">>)
            THEN <<KeywordFact(<<"Customer", "requested:">> \o message,
                               "event", "feature_request", 70)>>
            ELSE <<>>
        preference ==
            IF \/ has(<<"prefer">>) \/ has(<<"like", "to">>)
               \/ has(<<"developer">>) \/ has(<<"technical">>)
            THEN <<KeywordFact(<<"Customer", "preference:">> \o message,
                               "preference", "general", 60)>>
            ELSE <<>>
        company ==
            IF \/ has(<<"company">>) \/ has(<<"organization">>)
               \/ has(<<"work", "for">>) \/ has(<<"work", "at">>)
            THEN <<KeywordFact(<<"Customer", "info:">> \o message,
                               "preference", "general", 70)>>
            ELSE <<>>
    IN  remember \o bug \o feature \o preference \o company

\* The outcome of the chat call and of JSON.parse on its reply:
\*   "error"      ollamaClient.chat throws,
\*   "unparsable" JSON.parse throws,
\*   "notArray"   the reply parses to JSON that is no array,
\*   "array"      the reply parses to the array facts.
ChatError == [kind |-> "error", facts |-> <<>>]
ChatUnparsable == [kind |-> "unparsable", facts |-> <<>>]
ChatNotArray == [kind |-> "notArray", facts |-> <<>>]
ChatArray(facts) == [kind |-> "array", facts |-> facts]

\* Mutant of extractKeyFacts: the not-an-array error escapes the try block.
extractKeyFactsThrowsNotArray(message, reply) ==
    [raised |-> reply.kind = "notArray",
     path |-> "keyword",
     validated |-> <<>>,
     facts |-> IF reply.kind = "notArray" THEN <<>>
               ELSE extractKeyFactsKeywordBased(message)]

\* extractKeyFacts(interaction) for the user message and the chat outcome:
\* raised: an error reaches the caller; path: which extractor produced facts;
\* validated: validateExtractedFact's result for each raw fact of the reply.
extractKeyFacts(message, reply) ==
    IF reply.kind # "array"
    THEN [raised |-> FALSE, path |-> "keyword", validated |-> <<>>,
          facts |-> extractKeyFactsKeywordBased(message)]
    ELSE LET validated == [i \in 1..Len(reply.facts) |->
                              validateExtractedFact(reply.facts[i])]
             threw == \E i \in 1..Len(validated) : validated[i].k = "throw"
             kept == SelectSeq(validated, LAMBDA v : v.k = "fact")
         IN  IF threw
             THEN [raised |-> FALSE, path |-> "keyword", validated |-> validated,
                   facts |-> extractKeyFactsKeywordBased(message)]
             ELSE [raised |-> FALSE, path |-> "llm", validated |-> validated,
                   facts |-> [i \in 1..Len(kept) |-> kept[i].fact]]


(***************************************************************************)
(* Context assembly (buildContext).  A memory is described by what the     *)
(* function reads: type, category, importance, age in whole days and the   *)
(* length of its content in characters.  The returned text is kept as the  *)
(* list of pushed sections, each with its length; join('\n') adds one      *)
(* character between two of them.                                          *)
(***************************************************************************)

\* estimateTokens(text) = Math.ceil(text.length / 4), on the length.
estimateTokens(len) == (len + 3) \div 4

\* Number of decimal digits of a non-negative integer.
RECURSIVE Digits(_)
Digits(n) == IF n < 10 THEN 1 ELSE 1 + Digits(n \div 10)

\* importance * 0.7 + recencyScore * 0.3 with recencyScore = max(0, 1 - age/365),
\* multiplied by 365000 to stay in the integers (importance is in hundredths).
ContextScore(m) == m.importance * 7 * 365 + Max(0, 365 - m.ageDays) * 300

\* Array.prototype.sort((a, b) => b.score - a.score): descending and stable.
RECURSIVE InsertByScore(_, _)
InsertByScore(sorted, m) ==
    IF sorted = <<>> THEN <<m>>
    ELSE IF ContextScore(Head(sorted)) >= ContextScore(m)
         THEN <<Head(sorted)>> \o InsertByScore(Tail(sorted), m)
         ELSE <<m>> \o sorted

RECURSIVE SortByScore(_)
SortByScore(ms) ==
    IF ms = <<>> THEN <<>>
    ELSE InsertByScore(SortByScore(SubSeq(ms, 1, Len(ms) - 1)), ms[Len(ms)])

\* Length of '\n' + title for the five sections, in the order they are added.
SectionStartLen(sec) ==
    CASE sec = 1 -> 18     \* "\nCUSTOMER PROFILE:"
      [] sec = 2 -> 14     \* "\nKNOWN ISSUES:"
      [] sec = 3 -> 18     \* "\nFEATURE REQUESTS:"
      [] sec = 4 -> 19     \* "\nSENTIMENT HISTORY:"
      [] sec = 5 -> 21     \* "\nRECENT INTERACTIONS:"

\* 'today' / 'yesterday' / `${daysAgo} days ago`
TimeStrLen(daysAgo) ==
    IF daysAgo = 0 THEN 5 ELSE IF daysAgo = 1 THEN 9 ELSE Digits(daysAgo) + 9

\* `${i + 1}. [${timeStr}] ${content}` with content cut to charLimit + '...'.
\* i is the zero-based loop index.
LineLen(i, m, charLimit) ==
    Digits(i + 1) + 2 + 1 + TimeStrLen(m.ageDays) + 2
    + (IF m.contentLen > charLimit THEN charLimit + 3 ELSE m.contentLen)

\* `... (${n} more items truncated due to context limit)`
MarkerLen(n) == 5 + Digits(n) + 43

NoMemory == [type |-> "", category |-> "", importance |-> 0, ageDays |-> 0,
             contentLen |-> 0]

Section(kind, sec, len, m) == [kind |-> kind, sec |-> sec, len |-> len, mem |-> m]

\* The for loop of addSection from index i on.  st = [sections, currentTokens].
RECURSIVE AddItems(_, _, _, _, _, _, _)
AddItems(st, sec, items, i, maxItems, charLimit, maxTokens) ==
    IF i >= Min(Len(items), maxItems) THEN st
    ELSE LET item == items[i + 1]
             lineLen == LineLen(i, item, charLimit)
             lineTokens == estimateTokens(lineLen)
         IN  IF st.currentTokens + lineTokens > maxTokens
             THEN [st EXCEPT !.sections =
                      Append(@, Section("marker", sec, MarkerLen(Len(items) - i), NoMemory))]
             ELSE AddItems([sections |-> Append(st.sections,
                                                Section("line", sec, lineLen, item)),
                            currentTokens |-> st.currentTokens + lineTokens],
                           sec, items, i + 1, maxItems, charLimit, maxTokens)

\* addSection(title, items, maxItems, charLimit)
addSection(st, sec, items, maxItems, charLimit, maxTokens) ==
    IF items = <<>> THEN st
    ELSE LET charged == [st EXCEPT !.currentTokens =
                                       @ + estimateTokens(SectionStartLen(sec))]
         IN  IF charged.currentTokens >= maxTokens THEN charged
             ELSE AddItems([charged EXCEPT !.sections =
                               Append(@, Section("header", sec, SectionStartLen(sec),
                                                 NoMemory))],
                           sec, items, 0, maxItems, charLimit, maxTokens)

\* buildContext(memories, maxTokens): the sections pushed, in order.
buildContext(memories, maxTokens) ==
    IF memories = <<>>
    THEN <<Section("empty", 0, 48, NoMemory)>>
    ELSE LET sortedMemories == SortByScore(memories)
             bugReports == SelectSeq(sortedMemories, LAMBDA m : m.category = "bug_report")
             featureRequests ==
                 SelectSeq(sortedMemories, LAMBDA m : m.category = "feature_request")
             preferences ==
                 SelectSeq(sortedMemories,
                           LAMBDA m : m.type = "preference" \/ m.type = "extracted_fact")
             sentiment == SelectSeq(sortedMemories, LAMBDA m : m.type = "sentiment")
             conv == SelectSeq(sortedMemories, LAMBDA m : m.type = "conversation")
             recent == SubSeq(conv, 1, Min(3, Len(conv)))
             s0 == [sections |-> <<>>, currentTokens |-> 0]
             s1 == addSection(s0, 1, preferences, 10, 150, maxTokens)
             s2 == addSection(s1, 2, bugReports, 5, 120, maxTokens)
             s3 == addSection(s2, 3, featureRequests, 5, 120, maxTokens)
             s4 == addSection(s3, 4, sentiment, 3, 100, maxTokens)
             s5 == addSection(s4, 5, recent, 3, 200, maxTokens)
         IN  s5.sections

\* sections.join('\n').length
RECURSIVE SumLen(_)
SumLen(sections) ==
    IF sections = <<>> THEN 0 ELSE Head(sections).len + SumLen(Tail(sections))

JoinedLength(sections) ==
    IF sections = <<>> THEN 0 ELSE SumLen(sections) + Len(sections) - 1

(***************************************************************************)
(* Vector store (VectorStore over a ChromaDB collection) and the           *)
(* MemoryManager.  An operation is evaluated on a run record r: the        *)
(* collection and the embedding cache as the operation has changed them so *)
(* far, the number of requests it has sent (r.calls) and which of them     *)
(* fails (r.failAt; 0: none).  The requests are the provider's embeddings  *)
(* call and the collection's add, query, get and delete.  The chat call of *)
(* fact extraction is an input of its own (ChatError is its failure).      *)
(***************************************************************************)
Take(seq, n) == SubSeq(seq, 1, Min(n, Len(seq)))

\* The element of a one-element set.
TheOne(S) == CHOOSE y \in S : TRUE

\* const x = v; ...x...: Let([x \in {v} |-> body]) is body with x bound to the
\* value of v, which is computed once.
Let(f) == TheOne({g[TheOne(DOMAIN g)] : g \in {f}})

\* Array.prototype.sort with a descending comparator on key; stable.
SortDesc(xs) ==
    LET before(i, j) == xs[i].key > xs[j].key \/ (xs[i].key = xs[j].key /\ i < j)
        rank(i) == Cardinality({j \in 1..Len(xs) : before(j, i)}) + 1
    IN  [p \in 1..Len(xs) |-> xs[CHOOSE i \in 1..Len(xs) : rank(i) = p]]

Items(xs) == [i \in 1..Len(xs) |-> xs[i].item]

RequestFails(r) == r.failAt = r.calls + 1
\* A request of the given kind has been issued and has settled.
AfterRequest(r, kind) ==
    [r EXCEPT !.calls = @ + 1, !.failed = @ \/ RequestFails(r),
              !.trace = Append(@, kind)]

\* ollamaClient.generateEmbedding(text) inside an operation: the provider is
\* asked only on a cache miss.
Embed(r, text) ==
    LET miss == MapGet(r.cache, getCacheKey(text)) = "undefined" IN
    Let([e \in {generateEmbedding(r.cache, r.stats, r.prov, text,
                                  ~(miss /\ RequestFails(r)))} |->
            [run |-> [(IF miss THEN AfterRequest(r, "embeddings") ELSE r) EXCEPT
                         !.cache = e.cache, !.stats = e.stats, !.prov = e.prov],
             thrown |-> ~e.ok, vec |-> e.vec]])

TokenSet(str) == {LowerTok(str[i]) : i \in 1..Len(str)}

\* Pairs of different wordings whose embeddings lie exactly on the duplicate threshold.
Paraphrases ==
    { {<<"User's", "name", "is", "Alice">>, <<"Customer's", "name", "is", "Alice">>} }

\* Cosine similarity of the provider's embeddings of two texts, in hundredths:
\* 100 for the same text, 97 for texts that differ in letter case only, otherwise
\* the share of common words (below the duplicate threshold).
CosineSimilarity(a, b) ==
    IF a = b THEN 100
    ELSE IF toLowerCase(a) = toLowerCase(b) THEN 97
    ELSE IF {a, b} \in Paraphrases THEN 95
    ELSE LET all == TokenSet(a) \cup TokenSet(b)
         IN  IF all = {} THEN 0
             ELSE Min(94, (100 * Cardinality(TokenSet(a) \cap TokenSet(b)))
                              \div Cardinality(all))

\* Mutant of CollectionQuery: the query without the where clause.
CollectionQueryAnyUser(coll, embedding, userId, nResults) ==
    Let([hits \in {[i \in 1..Len(coll) |->
                      [key |-> CosineSimilarity(embedding[2], coll[i].content),
                       item |-> coll[i]]]} |->
        Take(SortDesc(hits), nResults)])

\* collection.query({queryEmbeddings, nResults, where: {userId}}): the user's
\* records, nearest first (records at the same distance in insertion order).
CollectionQuery(coll, embedding, userId, nResults) ==
    Let([mine \in {SelectSeq(coll, LAMBDA m : m.userId = userId)} |->
    Let([hits \in {[i \in 1..Len(mine) |->
                      [key |-> CosineSimilarity(embedding[2], mine[i].content),
                       item |-> mine[i]]]} |->
        Take(SortDesc(hits), nResults)])])

\* A stored record as the read paths rebuild it (metadata.importance || 0.5).
ReadMemory(m) == [m EXCEPT !.importance = IF @ = 0 THEN 50 ELSE @]

formatSearchResults(results) ==
    Let([rs \in {results} |->
        [i \in 1..Len(rs) |->
            LET distance == 100 - rs[i].key
            IN  [memory |-> ReadMemory(rs[i].item),
                 distance |-> distance,
                 relevance |-> 100 - distance]]])

\* The record collection.add is given: { userId, type, category, timestamp,
\* sessionId, importance, ...memory.metadata }, a key of the metadata map
\* replacing the field of the same name.  A memory without metadata field has
\* no key that names one of its fields.
IndexMetadata(memory) ==
    IF "metadata" \in DOMAIN memory
    THEN [k \in DOMAIN memory \ {"metadata"} |->
             IF k \in DOMAIN memory.metadata THEN memory.metadata[k] ELSE memory[k]]
    ELSE memory

\* VectorStore.addMemory
vectorStoreAddMemory(r, memory) ==
    IF RequestFails(r)
    THEN [run |-> AfterRequest(r, "add"), thrown |-> TRUE]
    ELSE [run |-> [AfterRequest(r, "add") EXCEPT !.coll = Append(@, IndexMetadata(memory))],
          thrown |-> FALSE]

\* VectorStore.searchMemories
searchMemories(r, query, userId, limit) ==
    Let([e \in {Embed(r, query)} |->
        IF e.thrown
        THEN [run |-> e.run, thrown |-> TRUE, results |-> <<>>]
        ELSE IF RequestFails(e.run)
        THEN [run |-> AfterRequest(e.run, "query"), thrown |-> TRUE, results |-> <<>>]
        ELSE [run |-> AfterRequest(e.run, "query"), thrown |-> FALSE,
              results |-> formatSearchResults(
                              CollectionQuery(e.run.coll, e.vec, userId, limit))]])

\* VectorStore.searchByEmbedding with the filter {userId}
searchByEmbedding(r, embedding, userId, limit) ==
    IF RequestFails(r)
    THEN [run |-> AfterRequest(r, "queryByEmbedding"), thrown |-> TRUE, results |-> <<>>]
    ELSE [run |-> AfterRequest(r, "queryByEmbedding"), thrown |-> FALSE,
          results |-> Take(formatSearchResults(
                               CollectionQuery(r.coll, embedding, userId, limit * 2)),
                           limit)]

\* VectorStore.deleteMemory
deleteMemory(r, memoryId) ==
    IF RequestFails(r)
    THEN [run |-> AfterRequest(r, "delete"), thrown |-> TRUE]
    ELSE [run |-> [AfterRequest(r, "delete") EXCEPT
                      !.coll = SelectSeq(@, LAMBDA m : m.id # memoryId)],
          thrown |-> FALSE]

\* Mutant of deleteUserMemories: deletes without the where clause.
deleteUserMemoriesAll(r, userId) ==
    IF RequestFails(r)
    THEN [run |-> AfterRequest(r, "deleteWhere"), thrown |-> TRUE]
    ELSE [run |-> [AfterRequest(r, "deleteWhere") EXCEPT !.coll = <<>>],
          thrown |-> FALSE]

\* VectorStore.deleteUserMemories
deleteUserMemories(r, userId) ==
    IF RequestFails(r)
    THEN [run |-> AfterRequest(r, "deleteWhere"), thrown |-> TRUE]
    ELSE [run |-> [AfterRequest(r, "deleteWhere") EXCEPT
                      !.coll = SelectSeq(@, LAMBDA m : m.userId # userId)],
          thrown |-> FALSE]

\* VectorStore.getMemoryCount(userId): a failed get is answered with 0.
getMemoryCount(r, userId) ==
    IF RequestFails(r)
    THEN [run |-> AfterRequest(r, "get"), count |-> 0]
    ELSE [run |-> AfterRequest(r, "get"),
          count |-> Len(SelectSeq(r.coll, LAMBDA m : m.userId = userId))]

\* VectorStore.getUserMemories: a failed get is answered with the empty list.
getUserMemories(r, userId) ==
    IF RequestFails(r)
    THEN [run |-> AfterRequest(r, "get"), memories |-> <<>>]
    ELSE [run |-> AfterRequest(r, "get"),
          memories |-> Let([mine \in {SelectSeq(r.coll, LAMBDA m : m.userId = userId)} |->
                               [i \in 1..Len(mine) |-> ReadMemory(mine[i])]])]

(***************************************************************************)
(* MemoryManager.                                                          *)
(***************************************************************************)
conflictableTypes == {"preference", "extracted_fact"}

\* Tokens holding an '@', and tokens matching /\d{3}[-.\s]?\d{3,4}/.
AtTokens == {"alice@x.com"}
PhoneNumberTokens == {"555-1234"}

\* lower.match(/\b<w1>\b.*\b<w2>\b/): w1, later w2, on one line.
WordThenWord(lower, W1, W2) ==
    \E i, j \in 1..Len(lower) :
        /\ i < j
        /\ lower[i] \in W1
        /\ lower[j] \in W2
        /\ \A k \in i..j : lower[k] # "\n"

\* detectFactType(content); "null" when no pattern matches.
detectFactType(content) ==
    LET lower == toLowerCase(content)
        has(w) == Includes(lower, w)
    IN  IF \/ has(<<"user's", "name", "is">>) \/ has(<<"user", "is", "called">>)
           \/ has(<<"prefers", "to", "be", "called">>)
           \/ WordThenWord(lower, {"name"}, {"is"})
        THEN "name"
        ELSE IF \/ has(<<"user's", "email">>) \/ has(<<"email", "is">>)
                \/ WordThenWord(lower, {"email"}, AtTokens)
        THEN "email"
        ELSE IF \/ has(<<"user's", "phone">>) \/ has(<<"phone", "is">>)
                \/ /\ \E i \in 1..Len(lower) : lower[i] \in {"call", "called"}
                   /\ \E i \in 1..Len(lower) : lower[i] \in PhoneNumberTokens
        THEN "phone"
        ELSE IF has(<<"works", "at">>) \/ has(<<"employed", "by">>)
                \/ has(<<"company", "is">>)
        THEN "company"
        ELSE IF has(<<"lives", "in">>) \/ has(<<"from">>) \/ has(<<"located", "in">>)
        THEN "location"
        ELSE "null"

\* categorizeMessage(message)
categorizeMessage(message) ==
    LET lowerMessage == toLowerCase(message)
        has(w) == Includes(lowerMessage, w)
    IN  IF has(<<"bug">>) \/ has(<<"broken">>) \/ has(<<"error">>)
           \/ has(<<"not", "working">>)
        THEN "bug_report"
        ELSE IF has(<<"feature">>) \/ has(<<"add">>) \/ has(<<"want">>) \/ has(<<"need">>)
        THEN "feature_request"
        ELSE IF has(<<"how">>) \/ has(<<"what">>) \/ has(<<"why">>) \/ has(<<"?">>)
        THEN "question"
        ELSE IF has(<<"great">>) \/ has(<<"love">>) \/ has(<<"hate">>)
                \/ has(<<"terrible">>)
        THEN "feedback"
        ELSE IF has(<<"api">>) \/ has(<<"code">>) \/ has(<<"technical">>)
                \/ has(<<"developer">>)
        THEN "technical"
        ELSE "general"

\* calculateImportance(memory)
calculateImportance(memory) ==
    Min(100, 50 + (IF memory.category = "bug_report" THEN 30 ELSE 0)
                + (IF memory.category = "feature_request" THEN 20 ELSE 0)
                + (IF memory.type = "preference" THEN 20 ELSE 0)
                + (IF memory.type = "event" THEN 10 ELSE 0))

\* findSimilarMemories(memory): a failed search is answered with the empty list.
findSimilarMemories(r, memory) ==
    Let([s \in {searchByEmbedding(r, memory.embedding, memory.userId, 5)} |->
        [run |-> s.run, results |-> IF s.thrown THEN <<>> ELSE s.results]])

\* Mutant of addMemory's duplicate test: >= instead of >.
IsDuplicateAtThreshold(duplicates) ==
    Len(duplicates) > 0 /\ duplicates[1].relevance >= 95

\* duplicates.length > 0 && duplicates[0].relevance > 0.95
IsDuplicate(duplicates) ==
    Len(duplicates) > 0 /\ duplicates[1].relevance > 95

\* The VectorMemory addMemory builds with the id and the Date.now() it drew;
\* importance -1 stands for undefined.
VectorMemory(memory, id, now) ==
    [id |-> id, userId |-> memory.userId, content |-> memory.content,
     type |-> memory.type, category |-> memory.category,
     timestamp |-> now,
     importance |-> IF memory.importance # -1 THEN memory.importance
                    ELSE calculateImportance(memory),
     extractedFrom |-> memory.extractedFrom,
     replacedMemoryId |-> memory.replacedMemoryId]
    @@ (IF "metadata" \in DOMAIN memory THEN [metadata |-> memory.metadata] ELSE <<>>)

\* MemoryManager.addMemory(memory).
\* thrown: the call rejects; id: the id it resolves to.
addMemory(r, memory) ==
    LET id == r.nextId
        vectorMemory == VectorMemory(memory, id, r.now)
    IN  Let([e \in {Embed([r EXCEPT !.nextId = @ + 1], memory.content)} |->
        IF e.thrown
        THEN [run |-> e.run, thrown |-> TRUE, id |-> 0]
        ELSE
        Let([d \in {findSimilarMemories(e.run, [userId |-> memory.userId,
                                                 embedding |-> e.vec])} |->
        IF IsDuplicate(d.results)
        THEN [run |-> d.run, thrown |-> FALSE, id |-> d.results[1].memory.id]
        ELSE Let([a \in {vectorStoreAddMemory(d.run, vectorMemory)} |->
                 [run |-> a.run, thrown |-> a.thrown,
                  id |-> IF a.thrown THEN 0 ELSE id]])])])

NoRecord ==
    [id |-> 0, userId |-> "", content |-> <<>>, type |-> "", category |-> "",
     timestamp |-> 0, importance |-> 0, extractedFrom |-> "", replacedMemoryId |-> 0]

\* Mutant of findConflictingMemory: returns the last conflicting memory.
findConflictingMemoryLast(r, userId, newFact) ==
    IF newFact.type \notin conflictableTypes
    THEN [run |-> r, found |-> FALSE, memory |-> NoRecord]
    ELSE
    LET factType == detectFactType(newFact.content) IN
    IF factType = "null"
    THEN [run |-> r, found |-> FALSE, memory |-> NoRecord]
    ELSE
    Let([g \in {getUserMemories(r, userId)} |->
    LET existingMemories == g.memories
        hits == {i \in 1..Len(existingMemories) :
                    /\ existingMemories[i].type # "conversation"
                    /\ detectFactType(existingMemories[i].content) = factType
                    /\ toLowerCase(existingMemories[i].content)
                           # toLowerCase(newFact.content)}
    IN  IF hits = {}
        THEN [run |-> g.run, found |-> FALSE, memory |-> NoRecord]
        ELSE [run |-> g.run, found |-> TRUE,
              memory |-> existingMemories[CHOOSE i \in hits : \A j \in hits : i >= j]]])

\* findConflictingMemory(userId, newFact): the first stored memory, in the order
\* getUserMemories lists them, that is no conversation, carries the same fact tag
\* and differs in lowercased content.
findConflictingMemory(r, userId, newFact) ==
    IF newFact.type \notin conflictableTypes
    THEN [run |-> r, found |-> FALSE, memory |-> NoRecord]
    ELSE
    LET factType == detectFactType(newFact.content) IN
    IF factType = "null"
    THEN [run |-> r, found |-> FALSE, memory |-> NoRecord]
    ELSE
    Let([g \in {getUserMemories(r, userId)} |->
    LET existingMemories == g.memories
        hits == {i \in 1..Len(existingMemories) :
                    /\ existingMemories[i].type # "conversation"
                    /\ detectFactType(existingMemories[i].content) = factType
                    /\ toLowerCase(existingMemories[i].content)
                           # toLowerCase(newFact.content)}
    IN  IF hits = {}
        THEN [run |-> g.run, found |-> FALSE, memory |-> NoRecord]
        ELSE [run |-> g.run, found |-> TRUE,
              memory |-> existingMemories[CHOOSE i \in hits : \A j \in hits : i <= j]]])

\* The loop of extractAndStoreKeyFacts from fact i on.
RECURSIVE StoreFacts(_, _, _, _)
StoreFacts(r, userId, facts, i) ==
    IF i > Len(facts)
    THEN [run |-> r, thrown |-> FALSE]
    ELSE
    Let([c \in {findConflictingMemory(r, userId, facts[i])} |->
    Let([d \in {IF c.found THEN deleteMemory(c.run, c.memory.id)
        ELSE [run |-> c.run, thrown |-> FALSE]} |->
    IF d.thrown
    THEN [run |-> d.run, thrown |-> TRUE]
    ELSE
    Let([a \in {addMemory(d.run,
            [userId |-> userId, content |-> facts[i].content, type |-> facts[i].type,
             category |-> facts[i].category, importance |-> facts[i].importance,
             extractedFrom |-> "llm",
             replacedMemoryId |-> IF c.found THEN c.memory.id ELSE 0])} |->
    IF a.thrown
    THEN [run |-> a.run, thrown |-> TRUE]
    ELSE StoreFacts(a.run, userId, facts, i + 1)])])])

\* extractAndStoreKeyFacts(interaction); reply is the outcome of the chat call.
extractAndStoreKeyFacts(r, interaction, reply) ==
    Let([facts \in {extractKeyFacts(interaction.userMessage, reply).facts} |->
        StoreFacts([r EXCEPT !.trace = Append(@, "chat")], interaction.userId, facts, 1)])

\* MemoryManager.addInteraction(interaction)
addInteraction(r, interaction, reply) ==
    LET conversationMemory ==
            [userId |-> interaction.userId,
             content |-> <<"User:">> \o interaction.userMessage
                         \o <<"\n", "Assistant:">> \o interaction.assistantMessage,
             type |-> "conversation",
             category |-> categorizeMessage(interaction.userMessage),
             importance |-> 50,
             extractedFrom |-> "", replacedMemoryId |-> 0]
    IN  Let([a \in {addMemory(r, conversationMemory)} |->
            IF a.thrown
            THEN [run |-> a.run, thrown |-> TRUE]
            ELSE extractAndStoreKeyFacts(a.run, interaction, reply)])

\* reRankResults(results, {0.5, 0.3, 0.2}); the clock counts days and the
\* composite score is scaled by 100 * 100 * 365.
reRankResultsNoRecency(results, now) ==
    Let([scored \in {[i \in 1..Len(results) |->
            [key |-> results[i].relevance * 50 * 365
                     + results[i].memory.importance * 30 * 365,
             item |-> results[i]]]} |->
        SortDesc(scored)])
reRankResults(results, now) ==
    Let([scored \in {[i \in 1..Len(results) |->
            [key |-> results[i].relevance * 50 * 365
                     + results[i].memory.importance * 30 * 365
                     + Max(0, 365 - (now - results[i].memory.timestamp)) * 20 * 100,
             item |-> results[i]]]} |->
        SortDesc(scored)])

\* MemoryManager.searchRelevantMemories(userId, query, options); an option that
\* is -1 or "" is undefined, and options?.limit || 5 also replaces a limit of 0
\* (options?.threshold || 0.7 a threshold of 0).  A failed search is answered
\* with [].
searchRelevantMemories(r, userId, query, options) ==
    LET limit == IF options.limit \in {-1, 0} THEN 5 ELSE options.limit
        threshold == IF options.threshold \in {-1, 0} THEN 70 ELSE options.threshold
    IN  Let([s \in {searchMemories(r, query, userId, limit * 2)} |->
        Let([relevant \in {SelectSeq(IF options.category # ""
                      THEN SelectSeq(s.results,
                                     LAMBDA x : x.memory.category = options.category)
                      ELSE s.results,
                      LAMBDA x : x.relevance >= threshold)} |->
        Let([finalResults \in {Take(Items(reRankResults(relevant, r.now)), limit)} |->
            [run |-> s.run, thrown |-> FALSE,
             memories |-> IF s.thrown THEN <<>>
                          ELSE [i \in 1..Len(finalResults) |-> finalResults[i].memory]]])])])

\* MemoryManager.getRecentMemories(userId, limit)
getRecentMemories(r, userId, limit) ==
    Let([g \in {getUserMemories(r, userId)} |->
    Let([keyed \in {[i \in 1..Len(g.memories) |->
                       [key |-> g.memories[i].timestamp, item |-> g.memories[i]]]} |->
        [run |-> g.run, thrown |-> FALSE,
         memories |-> Take(Items(SortDesc(keyed)), limit)]])])

\* MemoryManager.getMemoriesByCategory(userId, category): the search with the
\* empty query and { category, limit: 20, threshold: 0 }.
getMemoriesByCategory(r, userId, category) ==
    searchRelevantMemories(r, userId, <<>>,
                           [limit |-> 20, threshold |-> 0, category |-> category])

\* MemoryManager.deleteUserData(userId)
deleteUserData(r, userId) == deleteUserMemories(r, userId)

(***************************************************************************)
(* Initial values of each component.                                       *)
(***************************************************************************)
\* new OllamaClient(): empty cache, zeroed counters.
CacheIdle ==
    /\ embeddingCache = <<>>
    /\ stats = [cacheHits |-> 0, cacheMisses |-> 0, totalEmbeddings |-> 0]
    /\ providerCalls = 0
    /\ callLog = <<>>

PendingResult == [raised |-> FALSE, path |-> "pending", validated |-> <<>>, facts |-> <<>>]

\* No extractKeyFacts call under observation.
ExtractIdle ==
    /\ exMessage = <<>>
    /\ exReply = ChatError
    /\ exResult = PendingResult

NotBuilt == <<Section("pending", 0, 0, NoMemory)>>

\* No buildContext call under observation.
ContextIdle ==
    /\ ctxMemories = <<>>
    /\ ctxMaxTokens = 0
    /\ ctxOut = NotBuilt

SessionIds == {"s1", "s2"}
Procs == {1, 2}

\* A chat request that is not running.  erased is an observation, no local of
\* the code: a deleteUserData for the request's user has returned since the
\* request began.
NoChat ==
    [pc |-> "idle", sessionId |-> "", userId |-> "", message |-> <<>>,
     reply |-> ChatError, session |-> 0, seen |-> 0, memories |-> <<>>,
     erased |-> FALSE]

\* A call that is not running.
NoCall ==
    [pc |-> "idle", op |-> "", memory |-> NoRecord, text |-> 0, vec |-> <<>>,
     ret |-> 0, thrown |-> FALSE]

\* No session, no request in flight.
SessionIdle ==
    /\ sessions = [s \in SessionIds |-> 0]
    /\ sessionObjects = <<>>
    /\ chats = [p \in Procs |-> NoChat]
    /\ requestCount = 0
    /\ totalInteractions = 0
    /\ pending = [p \in Procs |-> NoCall]

\* SearchOptions with every field undefined (-1 and "" stand for undefined).
NoOptions == [limit |-> -1, threshold |-> -1, category |-> ""]

NoOp ==
    [op |-> "none", userId |-> "", text |-> <<>>, type |-> "", options |-> NoOptions,
     outcome |-> "ok", failed |-> FALSE, ret |-> 0, results |-> <<>>, trace |-> <<>>]

\* An initialized MemoryManager over an empty collection.
StoreIdle ==
    /\ collection = <<>>
    /\ nextId = 1
    /\ opCount = 0
    /\ clock = 1
    /\ faultInjected = FALSE
    /\ lastOp = NoOp

(***************************************************************************)
(* Specification of the embedding cache: sequential generateEmbedding      *)
(* calls, each run to completion.                                          *)
(***************************************************************************)
InitCache ==
    /\ SessionIdle
    /\ CacheIdle
    /\ ExtractIdle
    /\ ContextIdle
    /\ StoreIdle

EmbedOk == (\E t \in Texts : GenerateEmbedding(t, TRUE)) /\ UNCHANGED <<extractVars, ctxVars, storeVars, sessionVars>>
EmbedFail == (\E t \in Texts : GenerateEmbedding(t, FALSE)) /\ UNCHANGED <<extractVars, ctxVars, storeVars, sessionVars>>

NextCache == EmbedOk \/ EmbedFail

SpecCache == InitCache /\ [][NextCache]_vars

\* Texts of the calls that missed and were answered by the provider, in call order:
\* the order in which entries were inserted into the cache.
Inserted == SelectSeq(callLog, LAMBDA c : ~c.hit /\ c.ok)
CacheKeys == {embeddingCache[i].key : i \in 1..Len(embeddingCache)}

\* C3: two sequential generateEmbedding(t) calls through the cache return the
\* identical vector; the second one counts a cache hit and sends no request to
\* the embedding provider.
C3_SecondCallIsHit ==
    \A i \in 1..(Len(callLog) - 1) :
        (callLog[i].ok /\ callLog[i + 1].text = callLog[i].text) =>
            /\ callLog[i + 1].ok
            /\ callLog[i + 1].vec = callLog[i].vec
            /\ callLog[i + 1].hit
            /\ callLog[i + 1].hitsAfter = callLog[i + 1].hitsBefore + 1
            /\ callLog[i + 1].provAfter = callLog[i + 1].provBefore

\* C3 witness: a miss answered by the provider, directly followed by a call for
\* the same text.
C3_Witness ==
    \E i \in 1..(Len(callLog) - 1) :
        /\ callLog[i].ok /\ ~callLog[i].hit
        /\ callLog[i + 1].text = callLog[i].text

Messages ==
    { <<"My", "name", "is", "Alice">>,
      <<"my", "name", "is", "42">>,
      <<"call", "me", "Al">>,
      <<"I", "am", "a", "developer">>,
      <<"I", "am", "Bob">>,
      <<"Login", "is", "broken">>,
      <<"I", "need", "dark", "mode">>,
      <<"I", "work", "at", "Acme">>,
      <<"My", "name", "is", "Alice", "and", "login", "is", "broken">>,
      <<"hello">> }

BaseRaw ==
    [obj |-> TRUE,
     content |-> CStr(<<"User's", "name", "is", "Alice">>),
     importance |-> JNum(90),
     confidence |-> JNum(90),
     type |-> JStr("preference"),
     category |-> JStr("general")]

OtherRaw ==
    [obj |-> TRUE,
     content |-> CStr(<<"User", "reported", "login", "broken">>),
     importance |-> JNum(85),
     confidence |-> JNum(60),
     type |-> JStr("event"),
     category |-> JStr("bug_report")]

\* Raw facts an LLM reply can hold: two well-formed ones, and BaseRaw with one
\* field missing, wrong-typed or out of range.
RawFacts ==
    {BaseRaw, OtherRaw, [BaseRaw EXCEPT !.obj = FALSE]}
    \cup {[BaseRaw EXCEPT !.confidence = v] :
            v \in {JNum(0), JNum(30), JNum(50), JNum(150), JNum(-20),
                   JUndefined, JStr("0.3"), JStr("high")}}
    \cup {[BaseRaw EXCEPT !.importance = v] :
            v \in {JNum(0), JNum(150), JNum(-20), JUndefined, JStr("0.8")}}
    \cup {[BaseRaw EXCEPT !.type = v] :
            v \in {JStr("PREFERENCE"), JStr("fact"), JUndefined, JNull, JNum(5)}}
    \cup {[BaseRaw EXCEPT !.category = v] :
            v \in {JStr("billing"), JNull, JBool}}
    \cup {[BaseRaw EXCEPT !.content = v] :
            v \in {CUndefined, CNum, CStr(<<>>), CStr(<<" ">>), CStr(<<"x501">>),
                   CStr(<<" ", "User's", "name", "is", "Bob", " ">>)}}

RECURSIVE SeqsUpTo(_, _)
SeqsUpTo(S, n) ==
    IF n = 0 THEN {<<>>}
    ELSE LET shorter == SeqsUpTo(S, n - 1)
         IN  shorter \cup {Append(q, x) : q \in shorter, x \in S}

Replies ==
    {ChatError, ChatUnparsable, ChatNotArray}
    \cup {ChatArray(fs) : fs \in SeqsUpTo(RawFacts, MaxRawFacts)}

InitExtract ==
    /\ SessionIdle
    /\ CacheIdle
    /\ ContextIdle
    /\ exMessage \in Messages
    /\ exReply \in Replies
    /\ exResult = PendingResult
    /\ StoreIdle

ExtractCall ==
    /\ exResult.path = "pending"
    /\ exResult' = extractKeyFacts(exMessage, exReply)
    /\ UNCHANGED <<exMessage, exReply>>
    /\ UNCHANGED <<cacheVars, ctxVars, storeVars, sessionVars>>

NextExtract == ExtractCall

SpecExtract == InitExtract /\ [][NextExtract]_vars

ExtractDone == exResult.path # "pending"

\* C8: fact extraction never fails: when the chat call throws, the reply does not
\* parse or parses to a non-array, extractKeyFacts returns the keyword
\* extractor's list (possibly empty), and no outcome raises an error to the caller.
C8_ExtractionNeverFails ==
    ExtractDone =>
        /\ ~exResult.raised
        /\ exReply.kind \in {"error", "unparsable", "notArray"} =>
              /\ exResult.path = "keyword"
              /\ exResult.facts = extractKeyFactsKeywordBased(exMessage)

\* C8 witness: a reply that is no array, answered with a non-empty keyword list.
C8_Witness ==
    /\ ExtractDone
    /\ exReply.kind = "notArray"
    /\ exResult.facts # <<>>

\* C9: every LLM-produced fact whose confidence is a number c with 0 <= c < 0.5 is
\* rejected, and a numeric importance or confidence already inside [0,1] is kept
\* unchanged by validation.
C9_LowConfidenceRejected ==
    (ExtractDone /\ exReply.kind = "array") =>
        \A i \in 1..Len(exReply.facts) :
            LET raw == exReply.facts[i]
                v   == exResult.validated[i]
            IN  /\ (raw.confidence.t = "number" /\ raw.confidence.n >= 0
                       /\ raw.confidence.n < 50) => v.k # "fact"
                /\ (v.k = "fact" /\ raw.importance.t = "number"
                       /\ raw.importance.n >= 0 /\ raw.importance.n <= 100)
                      => v.fact.importance = raw.importance.n
                /\ (v.k = "fact" /\ raw.confidence.t = "number"
                       /\ raw.confidence.n >= 0 /\ raw.confidence.n <= 100)
                      => v.fact.confidence = JNum(raw.confidence.n)

\* C10: a malformed fact in the LLM's array is repaired or dropped on its own:
\* the extraction stays on the LLM path and returns, in the reply's order, every
\* fact of the reply that validates.
C10_MalformedFactIsLocal ==
    (ExtractDone /\ exReply.kind = "array") =>
        LET ok == SelectSeq(exReply.facts,
                            LAMBDA raw : validateExtractedFact(raw).k = "fact")
        IN  /\ exResult.path = "llm"
            /\ exResult.facts = [i \in 1..Len(ok) |-> validateExtractedFact(ok[i]).fact]

(***************************************************************************)
(* Specification of context assembly: buildContext is a function of the    *)
(* memory list and of maxTokens; Init draws both, the one action applies   *)
(* it.                                                                     *)
(***************************************************************************)
CtxMem(type, category, importance, ageDays, contentLen) ==
    [type |-> type, category |-> category, importance |-> importance,
     ageDays |-> ageDays, contentLen |-> contentLen]

ContextMemories ==
    { CtxMem("preference", "general", 60, 0, 40),
      CtxMem("extracted_fact", "general", 90, 1, 160),
      CtxMem("event", "bug_report", 80, 0, 8),
      CtxMem("event", "bug_report", 80, 12, 130),
      CtxMem("event", "feature_request", 70, 400, 20),
      CtxMem("sentiment", "feedback", 50, 1, 30),
      CtxMem("conversation", "general", 50, 0, 60),
      CtxMem("preference", "bug_report", 90, 0, 20) }

\* maxTokens arguments: small budgets and the default.
TokenBudgets == {10, 20, 60, 2000}

InitContext ==
    /\ SessionIdle
    /\ CacheIdle
    /\ ExtractIdle
    /\ ctxMemories \in SeqsUpTo(ContextMemories, MaxCtxMemories)
    /\ ctxMaxTokens \in TokenBudgets
    /\ ctxOut = NotBuilt
    /\ StoreIdle

BuildContextCall ==
    /\ ctxOut = NotBuilt
    /\ ctxOut' = buildContext(ctxMemories, ctxMaxTokens)
    /\ UNCHANGED <<ctxMemories, ctxMaxTokens>>
    /\ UNCHANGED <<cacheVars, extractVars, storeVars, sessionVars>>

NextContext == BuildContextCall

SpecContext == InitContext /\ [][NextContext]_vars

ContextBuilt == ctxOut # NotBuilt

\* The sections buildContext pushes for the same memories when no budget limits it.
Unbounded == buildContext(ctxMemories, 1000000)

Markers == {i \in 1..Len(ctxOut) : ctxOut[i].kind = "marker"}

\* C5: when the formatted sections do not all fit, the returned block's estimated
\* token count ceil(characters / 4) is at most maxTokens and the block contains a
\* truncation marker.
C5_BudgetRespected ==
    (ContextBuilt /\ ctxOut # Unbounded) =>
        /\ estimateTokens(JoinedLength(ctxOut)) <= ctxMaxTokens
        /\ Markers # {}

\* C6: once an item line would exceed the budget, exactly one truncation marker
\* is emitted and processing stops: nothing follows the marker in the output,
\* and the output holds at most one marker.
C6_StopsAtFirstMarker ==
    ContextBuilt =>
        /\ Cardinality(Markers) <= 1
        /\ \A i \in Markers : i = Len(ctxOut)

(***************************************************************************)
(* Specification of the MemoryManager over the vector store: sequential    *)
(* operations, each run to completion.  At most one request of a behaviour *)
(* fails (single-fault model).                                             *)
(***************************************************************************)
Users == {"u1", "u2"}

BobRaw == [BaseRaw EXCEPT !.content = CStr(<<"User's", "name", "is", "Bob">>)]

Interaction(userId, userMessage, reply) ==
    [userId |-> userId, userMessage |-> userMessage, assistantMessage |-> <<"ok">>,
     reply |-> reply]

\* Turns handed to addInteraction, each with what the chat call of fact
\* extraction gives.
Interactions ==
    { Interaction("u1", <<"My", "name", "is", "Alice">>, ChatError),
      Interaction("u1", <<"My", "name", "is", "Alice">>, ChatArray(<<BaseRaw>>)),
      Interaction("u1", <<"My", "name", "is", "Bob">>, ChatArray(<<BobRaw>>)),
      Interaction("u1", <<"My", "name", "is", "Alice", "and", "login", "is", "broken">>,
                  ChatUnparsable),
      Interaction("u2", <<"My", "name", "is", "Bob">>, ChatArray(<<BobRaw>>)) }

MemoryInput(userId, content, type, importance) ==
    [userId |-> userId, content |-> content, type |-> type, category |-> "general",
     importance |-> importance, extractedFrom |-> "", replacedMemoryId |-> 0]

\* Memories handed to addMemory directly.
MemoryInputs ==
    { MemoryInput("u1", <<"User's", "name", "is", "Alice">>, "preference", 90),
      MemoryInput("u1", <<"USER'S", "NAME", "IS", "ALICE">>, "preference", 90),
      MemoryInput("u1", <<"Customer's", "name", "is", "Alice">>, "extracted_fact", -1),
      MemoryInput("u2", <<"User's", "name", "is", "Alice">>, "preference", 90) }

Queries == { <<"User's", "name", "is", "Alice">> }

\* The run record an operation starts from.
Start(failAt) ==
    [coll |-> collection, nextId |-> nextId, cache |-> embeddingCache,
     stats |-> stats, prov |-> providerCalls, now |-> clock,
     calls |-> 0, failAt |-> failAt, failed |-> FALSE, trace |-> <<>>]

\* Which request of an operation may fail, given the run in which none does.
FailPoints(clean) == IF faultInjected THEN {0} ELSE 0..clean.calls

MemoryIds(memories) == [i \in 1..Len(memories) |-> memories[i].id]

\* The operation has run to completion: its effects and what its caller saw.
Finish(r, op, userId, text, type, options, thrown, ret, results) ==
    /\ opCount < MaxOps
    /\ collection' = r.coll
    /\ nextId' = r.nextId
    /\ embeddingCache' = r.cache
    /\ stats' = r.stats
    /\ providerCalls' = r.prov
    /\ opCount' = opCount + 1
    /\ clock' = clock + 1
    /\ faultInjected' = (faultInjected \/ r.failed)
    /\ lastOp' = [op |-> op, userId |-> userId, text |-> text, type |-> type,
                  options |-> options,
                  outcome |-> IF thrown THEN "error" ELSE "ok",
                  failed |-> r.failed, ret |-> ret, results |-> results,
                  trace |-> r.trace]
    /\ UNCHANGED <<callLog, extractVars, ctxVars, sessionVars>>

AddInteraction ==
    /\ opCount < MaxOps
    /\ \E in \in Interactions :
         \E failAt \in FailPoints(addInteraction(Start(0), in, in.reply).run) :
            \E x \in {addInteraction(Start(failAt), in, in.reply)} :
                Finish(x.run, "addInteraction", in.userId, in.userMessage, "", NoOptions,
                       x.thrown, 0, <<>>)

AddMemory ==
    /\ opCount < MaxOps
    /\ \E m \in MemoryInputs :
         \E failAt \in FailPoints(addMemory(Start(0), m).run) :
            \E x \in {addMemory(Start(failAt), m)} :
                Finish(x.run, "addMemory", m.userId, m.content, m.type, NoOptions,
                       x.thrown, x.id, <<>>)

SearchRelevantMemories ==
    /\ opCount < MaxOps
    /\ \E u \in Users, q \in Queries :
         \E failAt \in FailPoints(searchRelevantMemories(Start(0), u, q, NoOptions).run) :
            \E x \in {searchRelevantMemories(Start(failAt), u, q, NoOptions)} :
                Finish(x.run, "searchRelevantMemories", u, q, "", NoOptions, x.thrown, 0,
                       MemoryIds(x.memories))

GetRecentMemories ==
    /\ opCount < MaxOps
    /\ \E u \in Users :
         \E failAt \in FailPoints(getRecentMemories(Start(0), u, 10).run) :
            \E x \in {getRecentMemories(Start(failAt), u, 10)} :
                Finish(x.run, "getRecentMemories", u, <<>>, "", NoOptions, x.thrown, 0,
                       MemoryIds(x.memories))

DeleteUserData ==
    /\ opCount < MaxOps
    /\ \E u \in Users :
         \E failAt \in FailPoints(deleteUserData(Start(0), u).run) :
            \E x \in {deleteUserData(Start(failAt), u)} :
                Finish(x.run, "deleteUserData", u, <<>>, "", NoOptions, x.thrown, 0, <<>>)

InitStore ==
    /\ SessionIdle
    /\ CacheIdle
    /\ ExtractIdle
    /\ ContextIdle
    /\ StoreIdle

NextStore ==
    \/ AddInteraction
    \/ AddMemory
    \/ SearchRelevantMemories
    \/ GetRecentMemories
    \/ DeleteUserData

SpecStore == InitStore /\ [][NextStore]_vars

\* The step is a completed MemoryManager operation op that resolved.
Resolved(op) ==
    /\ opCount' = opCount + 1
    /\ lastOp'.op = op
    /\ lastOp'.outcome = "ok"

Records(coll) == {coll[i] : i \in 1..Len(coll)}

\* The user's stored memories that are no conversation and carry the name tag.
NameFacts(coll, userId) ==
    {m \in Records(coll) : /\ m.userId = userId
                           /\ m.type # "conversation"
                           /\ detectFactType(m.content) = "name"}

\* C1: when a user's store holds a name-tagged preference or extracted_fact memory
\* A that an earlier addInteraction stored, and an addInteraction for that user
\* stores a name-tagged preference or extracted_fact B whose lowercased content
\* differs from A's, then afterwards the user has exactly one name-tagged
\* non-conversation memory, its content is B's, and its replacedMemoryId is the
\* id A had.
C1_ConflictReplacesOldName ==
    [][Resolved("addInteraction") =>
        \A A \in NameFacts(collection, lastOp'.userId) :
        \A B \in NameFacts(collection', lastOp'.userId) :
            ( /\ A.type \in conflictableTypes
              /\ A.extractedFrom = "llm"
              /\ B.type \in conflictableTypes
              /\ B.id \notin {m.id : m \in Records(collection)}
              /\ toLowerCase(B.content) # toLowerCase(A.content) )
            => /\ NameFacts(collection', lastOp'.userId) = {B}
               /\ B.replacedMemoryId = A.id]_vars

\* The memory nearest to content among the user's stored ones, as a list of at
\* most one [key: similarity, item: memory].
Nearest(coll, userId, content) ==
    CollectionQuery(coll, ProviderEmbedding(content), userId, 1)

\* C2: an addMemory that resolves inserts no record and returns the nearest
\* memory's id when the user's nearest stored memory has relevance above 0.95,
\* and inserts exactly one record otherwise; called twice in sequence with the
\* same content for the same user, the second call returns the first call's id
\* and the store holds exactly one record for that content.
C2_AddMemoryIsIdempotent ==
    [][Resolved("addMemory") =>
        LET near == Nearest(collection, lastOp'.userId, lastOp'.text)
            dup  == near # <<>> /\ near[1].key > 95
        IN  /\ dup => /\ collection' = collection
                      /\ lastOp'.ret = near[1].item.id
            /\ ~dup => /\ Len(collection') = Len(collection) + 1
                       /\ SubSeq(collection', 1, Len(collection)) = collection
                       /\ collection'[Len(collection')].id = lastOp'.ret
            /\ ( /\ lastOp.op = "addMemory"
                 /\ lastOp.outcome = "ok"
                 /\ lastOp.userId = lastOp'.userId
                 /\ lastOp.text = lastOp'.text )
               => /\ lastOp'.ret = lastOp.ret
                  /\ Cardinality({m \in Records(collection') :
                         /\ m.userId = lastOp'.userId
                         /\ CosineSimilarity(m.content, lastOp'.text) > 95}) = 1]_vars

\* C7: when an embedding or vector-store request fails during a MemoryManager
\* operation, the operation rejects: its caller sees the error, not a default
\* value (a failed chat call of fact extraction is not such a request).
C7_FailuresPropagate == lastOp.failed => lastOp.outcome = "error"

\* For comparison: the same operations when no request fails.
InitStoreNoFault ==
    /\ SessionIdle
    /\ CacheIdle
    /\ ExtractIdle
    /\ ContextIdle
    /\ collection = <<>>
    /\ nextId = 1
    /\ opCount = 0
    /\ clock = 1
    /\ faultInjected = TRUE
    /\ lastOp = NoOp

SpecStoreNoFault == InitStoreNoFault /\ [][NextStore]_vars

(***************************************************************************)
(* Specification of retrieval: searchRelevantMemories is a function of the *)
(* stored memories, the clock, the query and the options; Init draws the   *)
(* store and the clock, the one action draws the arguments and applies it. *)
(* The sequence collection is the order in which the index returns         *)
(* records at the same distance.                                           *)
(***************************************************************************)
MaxStored == 3       \* memories in the store when retrieval is called

Stored(id, userId, content, type, category, timestamp, importance) ==
    [id |-> id, userId |-> userId, content |-> content, type |-> type,
     category |-> category, timestamp |-> timestamp, importance |-> importance,
     extractedFrom |-> "", replacedMemoryId |-> 0]

\* Memories a store can hold: for the query "User's name is Alice" one at
\* relevance 1.0, three at 0.6 with equal importance, one of another user and
\* one stored with importance 0.
StoredPool ==
    { Stored(1, "u1", <<"User's", "name", "is", "Alice">>, "preference", "general", 5, 90),
      Stored(2, "u1", <<"User's", "name", "is", "Bob">>, "preference", "general", 3, 80),
      Stored(3, "u1", <<"User's", "name", "is", "Al">>, "preference", "general", 7, 80),
      Stored(4, "u1", <<"User's", "name", "is", "broken">>, "event", "bug_report", 7, 80),
      Stored(5, "u2", <<"User's", "name", "is", "Alice">>, "preference", "general", 1, 90),
      Stored(6, "u1", <<"Customer's", "name", "is", "Alice">>, "extracted_fact",
             "general", 9, 0) }

Stores ==
    {q \in SeqsUpTo(StoredPool, MaxStored) :
        \A i, j \in 1..Len(q) : i # j => q[i] # q[j]}

\* Date.now() at the call: days after the first memory was stored.
Clocks == {10, 370, 800}

RetrievalOptions ==
    { NoOptions,
      [limit |-> 5, threshold |-> 50, category |-> ""],
      [limit |-> 1, threshold |-> 50, category |-> ""],
      [limit |-> 2, threshold |-> 50, category |-> ""],
      [limit |-> 1, threshold |-> 50, category |-> "bug_report"],
      [limit |-> 0, threshold |-> 50, category |-> ""] }

InitRetrieve ==
    /\ SessionIdle
    /\ CacheIdle
    /\ ExtractIdle
    /\ ContextIdle
    /\ collection \in Stores
    /\ nextId = 7
    /\ opCount = 0
    /\ clock \in Clocks
    /\ faultInjected = FALSE
    /\ lastOp = NoOp

Retrieve ==
    /\ opCount = 0
    /\ \E u \in Users, q \in Queries, options \in RetrievalOptions :
         \E failAt \in FailPoints(searchRelevantMemories(Start(0), u, q, options).run) :
            \E x \in {searchRelevantMemories(Start(failAt), u, q, options)} :
                Finish(x.run, "searchRelevantMemories", u, q, "", options, x.thrown, 0,
                       MemoryIds(x.memories))

\* Categories asked for by getMemoriesByCategory.
Categories == {"general", "bug_report"}

RetrieveByCategory ==
    /\ opCount = 0
    /\ \E u \in Users, category \in Categories :
         \E failAt \in FailPoints(getMemoriesByCategory(Start(0), u, category).run) :
            \E x \in {getMemoriesByCategory(Start(failAt), u, category)} :
                Finish(x.run, "getMemoriesByCategory", u, <<>>, "",
                       [limit |-> 20, threshold |-> 0, category |-> category],
                       x.thrown, 0, MemoryIds(x.memories))

NextRetrieve == Retrieve \/ RetrieveByCategory

SpecRetrieve == InitRetrieve /\ [][NextRetrieve]_vars

\* The call whose result lastOp holds, for the claims on retrieval.
Searched == lastOp.op = "searchRelevantMemories"

\* The options of the searched call as the caller gave them: the limit and the
\* threshold in hundredths, 5 and 0.7 only when none is given.
GivenLimit == IF lastOp.options.limit = -1 THEN 5 ELSE lastOp.options.limit
GivenThreshold == IF lastOp.options.threshold = -1 THEN 70 ELSE lastOp.options.threshold

\* The stored record with the given id, as the read path rebuilds it, and its
\* relevance to the query of the searched call.
StoredById(id) == ReadMemory(TheOne({m \in Records(collection) : m.id = id}))
Relevance(id) == CosineSimilarity(lastOp.text, StoredById(id).content)

\* The user's memories strictly nearer to the query than the memory id.
Nearer(id) ==
    {m \in Records(collection) :
        /\ m.userId = lastOp.userId
        /\ CosineSimilarity(lastOp.text, m.content) > Relevance(id)}

\* C11: searchRelevantMemories(userId, query, {limit, threshold, category})
\* returns at most limit memories, each of them stored for userId, among the
\* 2*limit nearest neighbours of the query in that user's memories, of relevance
\* at least the threshold (0.7 when none is given) and of the given category
\* when one is given.
C11_RetrievalRespectsOptions ==
    Searched =>
        /\ Len(lastOp.results) <= GivenLimit
        /\ \A i \in 1..Len(lastOp.results) :
             /\ StoredById(lastOp.results[i]).userId = lastOp.userId
             /\ Cardinality(Nearer(lastOp.results[i])) < 2 * GivenLimit
             /\ Relevance(lastOp.results[i]) >= GivenThreshold
             /\ lastOp.options.category # ""
                  => StoredById(lastOp.results[i]).category = lastOp.options.category

\* The clock of the searched call (every call advances the clock by one day),
\* the age in days of a stored memory at that call, and its composite score
\* relevance*0.5 + importance*0.3 + recency*0.2, scaled by 100*100*365.
SearchedAt == clock - 1
AgeDays(id) == SearchedAt - StoredById(id).timestamp
Composite(id) ==
    Relevance(id) * 50 * 365
    + StoredById(id).importance * 30 * 365
    + Max(0, 365 - AgeDays(id)) * 20 * 100

\* Index order: the order in which the store returns the user's memories for
\* the query, nearest first and in stored order at equal distance.
StoredPos(id) == TheOne({i \in 1..Len(collection) : collection[i].id = id})
IndexBefore(a, b) ==
    \/ Relevance(a) > Relevance(b)
    \/ Relevance(a) = Relevance(b) /\ StoredPos(a) < StoredPos(b)

\* a is ahead of b in the order by non-increasing composite score in which
\* equal scores keep the index order.
RanksBefore(a, b) ==
    \/ Composite(a) > Composite(b)
    \/ Composite(a) = Composite(b) /\ IndexBefore(a, b)

\* The ids of the memories that reach the sort: of the user, among the first
\* 2*limit in index order, of relevance at least the threshold and of the
\* given category when one is given.
Survivors ==
    {m.id : m \in
        {m \in Records(collection) :
            /\ m.userId = lastOp.userId
            /\ Cardinality({o \in Records(collection) :
                    o.userId = lastOp.userId /\ IndexBefore(o.id, m.id)})
                 < 2 * GivenLimit
            /\ CosineSimilarity(lastOp.text, m.content) >= GivenThreshold
            /\ lastOp.options.category # "" => m.category = lastOp.options.category}}

\* C12: the list retrieval returns is ordered by non-increasing composite score
\* relevance*0.5 + importance*0.3 + recency*0.2 with equal scores in index
\* order, and it is the sorted list cut to limit: it has at most limit entries,
\* and no memory that reached the sort and was left out ranks before one that
\* was returned.
C12_OrderedThenTruncated ==
    Searched =>
        /\ Len(lastOp.results) <= GivenLimit
        /\ \A i, j \in 1..Len(lastOp.results) :
             i < j => RanksBefore(lastOp.results[i], lastOp.results[j])
        /\ \A i \in 1..Len(lastOp.results) :
             \A o \in Survivors \ {lastOp.results[k] : k \in 1..Len(lastOp.results)} :
                RanksBefore(lastOp.results[i], o)

\* Two returned memories of equal similarity and equal importance, the first
\* of them the younger one.
YoungerTwin(a, b) ==
    /\ Relevance(a) = Relevance(b)
    /\ StoredById(a).importance = StoredById(b).importance
    /\ AgeDays(a) < AgeDays(b)

DedupInputs ==
    { MemoryInput("u1", <<"User's", "name", "is", "Alice">>, "preference", 90),
      MemoryInput("u1", <<"User's", "name", "is", "Alice">>, "extracted_fact", 90),
      MemoryInput("u2", <<"USER'S", "NAME", "IS", "ALICE">>, "preference", 90),
      MemoryInput("u2", <<"Login", "is", "broken">>, "event", -1) }

InitDedup ==
    /\ SessionIdle
    /\ CacheIdle
    /\ ExtractIdle
    /\ ContextIdle
    /\ collection \in Stores
    /\ nextId = 7
    /\ opCount = 0
    /\ clock \in {10}
    /\ faultInjected = FALSE
    /\ lastOp = NoOp

Deduplicate ==
    /\ opCount = 0
    /\ \E m \in DedupInputs :
         \E failAt \in FailPoints(addMemory(Start(0), m).run) :
            \E x \in {addMemory(Start(failAt), m)} :
                Finish(x.run, "addMemory", m.userId, m.content, m.type, NoOptions,
                       x.thrown, x.id, <<>>)

NextDedup == Deduplicate

SpecDedup == InitDedup /\ [][NextDedup]_vars

\* The stored memories of the given user and type that are near-duplicates
\* (similarity above 0.95) of the content.
NearDuplicates(coll, userId, type, content) ==
    {m \in Records(coll) :
        /\ m.userId = userId
        /\ m.type = type
        /\ CosineSimilarity(m.content, content) > 95}

\* addMemory appended the memory it was given and returned its id.
Inserted14 ==
    /\ Len(collection') = Len(collection) + 1
    /\ SubSeq(collection', 1, Len(collection)) = collection
    /\ collection'[Len(collection')].id = lastOp'.ret
    /\ collection'[Len(collection')].userId = lastOp'.userId
    /\ collection'[Len(collection')].type = lastOp'.type
    /\ collection'[Len(collection')].content = lastOp'.text

\* C14: the duplicate lookup of addMemory considers only memories of the same
\* userId and the same type: when the store holds no near-duplicate (similarity
\* above 0.95) of that user and type the memory is inserted, whatever other
\* users or other types hold, and an insertion is suppressed only in favour of a
\* near-duplicate of that user and type, whose id is returned.
C14_DedupScopedToUserAndType ==
    [][Resolved("addMemory") =>
        LET dups == NearDuplicates(collection, lastOp'.userId, lastOp'.type,
                                   lastOp'.text)
        IN  /\ dups = {} => Inserted14
            /\ ~Inserted14 => /\ collection' = collection
                              /\ lastOp'.ret \in {m.id : m \in dups}]_vars

(***************************************************************************)
(* Specification of conflict resolution: one pass of the loop of           *)
(* extractAndStoreKeyFacts, storing one extracted fact into a store drawn  *)
(* by Init.                                                                *)
(***************************************************************************)
\* Stored memories: of u1 a conversation that mentions the name, two name
\* facts, an event that matches the name pattern and an email fact; of u2 a
\* name fact.
ConflictPool ==
    { Stored(1, "u1", <<"User:", "My", "name", "is", "Alice">>, "conversation",
             "general", 1, 50),
      Stored(2, "u1", <<"User's", "name", "is", "Alice">>, "preference", "general", 2, 90),
      Stored(3, "u1", <<"USER'S", "NAME", "IS", "BOB">>, "extracted_fact", "general", 3, 90),
      Stored(4, "u1", <<"User's", "name", "is", "broken">>, "event", "bug_report", 4, 80),
      Stored(5, "u1", <<"User's", "email", "is", "alice@x.com">>, "preference",
             "general", 5, 90),
      Stored(6, "u2", <<"User's", "name", "is", "Alice">>, "preference", "general", 6, 90) }

ConflictStores ==
    {q \in SeqsUpTo(ConflictPool, MaxStored) :
        \A i, j \in 1..Len(q) : i # j => q[i] # q[j]}

\* Extracted facts: a name of a conflictable type, the same name as an event,
\* an email, and a preference that matches no pattern.
ConflictFacts ==
    { KeywordFact(<<"User's", "name", "is", "Bob">>, "preference", "general", 90),
      KeywordFact(<<"User's", "name", "is", "Bob">>, "event", "general", 90),
      KeywordFact(<<"User's", "email", "is", "bob@x.com">>, "extracted_fact", "general", 90),
      KeywordFact(<<"Login", "is", "broken">>, "preference", "bug_report", 80) }

InitConflict ==
    /\ SessionIdle
    /\ CacheIdle
    /\ ExtractIdle
    /\ ContextIdle
    /\ collection \in ConflictStores
    /\ nextId = 7
    /\ opCount = 0
    /\ clock \in {10}
    /\ faultInjected = FALSE
    /\ lastOp = NoOp

StoreFact ==
    /\ opCount = 0
    /\ \E u \in Users, fact \in ConflictFacts :
         \E failAt \in FailPoints(StoreFacts(Start(0), u, <<fact>>, 1).run) :
            \E x \in {StoreFacts(Start(failAt), u, <<fact>>, 1)} :
                Finish(x.run, "storeFact", u, fact.content, fact.type, NoOptions,
                       x.thrown, 0, <<>>)

NextConflict == StoreFact

SpecConflict == InitConflict /\ [][NextConflict]_vars

\* The stored memories that are gone after the step.
Deleted == {m \in Records(collection) : m.id \notin {n.id : n \in Records(collection')}}

\* The positions in the store of the user's memories that conflict with the
\* fact being stored: no conversation, same fact tag, lowercased content
\* different.
Conflicting ==
    {i \in 1..Len(collection) :
        /\ collection[i].userId = lastOp'.userId
        /\ collection[i].type # "conversation"
        /\ detectFactType(collection[i].content) = detectFactType(lastOp'.text)
        /\ toLowerCase(collection[i].content) # toLowerCase(lastOp'.text)}

\* C15: storing one new fact deletes at most one memory; it deletes none when
\* the fact's type is neither preference nor extracted_fact or its content
\* matches no fact tag; a deleted memory is the first, in the order the store
\* returns the user's memories, of the user's non-conversation memories with the
\* same tag and case-insensitively different content, and when no request fails
\* that memory is deleted.
C15_AtMostOneDeletion ==
    [][(opCount' = opCount + 1 /\ lastOp'.op = "storeFact") =>
        /\ Cardinality(Deleted) <= 1
        /\ (lastOp'.type \notin {"preference", "extracted_fact"}
              \/ detectFactType(lastOp'.text) = "null") => Deleted = {}
        /\ \A m \in Deleted :
             /\ Conflicting # {}
             /\ m = collection[CHOOSE i \in Conflicting : \A j \in Conflicting : i <= j]
        /\ ( /\ ~lastOp'.failed
             /\ lastOp'.type \in {"preference", "extracted_fact"}
             /\ detectFactType(lastOp'.text) # "null"
             /\ Conflicting # {} ) => Deleted # {}]_vars

\* A fact was stored in place of a conflicting memory while another memory that
\* conflicts with it, later in the store's order, was kept.
C15_Witness ==
    /\ lastOp.op = "storeFact"
    /\ \E n \in Records(collection) :
         /\ n.replacedMemoryId # 0
         /\ n.content = lastOp.text
         /\ \E m \in Records(collection) :
              /\ m.id > n.replacedMemoryId
              /\ m.id < 7
              /\ m.userId = lastOp.userId
              /\ m.type # "conversation"
              /\ detectFactType(m.content) = detectFactType(lastOp.text)
              /\ toLowerCase(m.content) # toLowerCase(lastOp.text)

(***************************************************************************)
(* Specification of the chat flow and its session table.  A request runs  *)
(* SupportAgent.chat -> executeChatFlow; every await is a point where the  *)
(* other request can run, and the code between two awaits runs in one      *)
(* step.  A SessionState is an object: the table and every request that    *)
(* looked it up hold the same reference.  The MemoryManager calls run as   *)
(* in the store specification, each as one step.                           *)
(***************************************************************************)
MaxRequests == 2     \* requests (chat, clear session) received in a behaviour

\* Mutant of NewSession: the new session already counts one message.
NewSessionCounted(userId, now) ==
    [userId |-> userId, messageCount |-> 1, lastInteractionTime |-> now,
     recentMemories |-> <<>>]

\* The session object executeChatFlow creates for an unseen sessionId.
NewSession(userId, now) ==
    [userId |-> userId, messageCount |-> 0, lastInteractionTime |-> now,
     recentMemories |-> <<>>]

\* Mutant of UpdateSession: writes back the count read when the request looked
\* the session up.
UpdateSessionFromCopy(session, seen, memories, now) ==
    [session EXCEPT !.messageCount = seen + 1,
                    !.lastInteractionTime = now,
                    !.recentMemories = Take(memories, 3)]

\* Step 5 of executeChatFlow: session.messageCount++, lastInteractionTime,
\* recentMemories = memories.slice(0, 3).  seen is not used by the code.
UpdateSession(session, seen, memories, now) ==
    [session EXCEPT !.messageCount = @ + 1,
                    !.lastInteractionTime = now,
                    !.recentMemories = Take(memories, 3)]

\* The options executeChatFlow searches with.
ChatFlowOptions == [limit |-> 5, threshold |-> 50, category |-> ""]

\* What the store holds when the agent starts: four memories of u1 that a
\* message about the name retrieves, and one of u2.
SessionStore ==
    << Stored(1, "u1", <<"User's", "name", "is", "Alice">>, "preference", "general", 1, 90),
       Stored(2, "u1", <<"Customer's", "name", "is", "Alice">>, "extracted_fact",
              "general", 1, 80),
       Stored(3, "u1", <<"name", "is", "Alice">>, "event", "general", 1, 70),
       Stored(4, "u1", <<"User:", "My", "name", "is", "Alice">>, "conversation",
              "general", 1, 50),
       Stored(5, "u2", <<"User's", "name", "is", "Bob">>, "preference", "general", 1, 90) >>

\* Requests: sessionId, and the turn with what the chat call of fact
\* extraction gives.
ChatRequest(sessionId, interaction) == [sessionId |-> sessionId, in |-> interaction]

ChatRequests ==
    { ChatRequest("s1", Interaction("u1", <<"My", "name", "is", "Alice">>, ChatError)),
      ChatRequest("s1", Interaction("u1", <<"Login", "is", "broken">>, ChatUnparsable)),
      ChatRequest("s2", Interaction("u2", <<"My", "name", "is", "Bob">>,
                                    ChatArray(<<BobRaw>>))) }

InitSession ==
    /\ CacheIdle
    /\ ExtractIdle
    /\ ContextIdle
    /\ SessionIdle
    /\ collection = SessionStore
    /\ nextId = 6
    /\ opCount = 0
    /\ clock = 2
    /\ faultInjected = FALSE
    /\ lastOp = NoOp

\* Which request of a MemoryManager call of the chat flow may fail: the first
\* one (the embedding of the query, of the conversation text), or none.
ChatFailPoints == IF faultInjected THEN {0} ELSE {0, 1}

\* A MemoryManager call of a request has run to completion.
Completes(r) ==
    /\ collection' = r.coll
    /\ nextId' = r.nextId
    /\ embeddingCache' = r.cache
    /\ stats' = r.stats
    /\ providerCalls' = r.prov
    /\ faultInjected' = (faultInjected \/ r.failed)
    /\ UNCHANGED <<callLog, extractVars, ctxVars, opCount, clock, lastOp>>

\* chat() is called with one of the given requests: executeChatFlow gets or
\* creates the session and awaits the search.
ChatBeginWith(p, requests) ==
    /\ chats[p].pc = "idle"
    /\ requestCount < MaxRequests
    /\ \E req \in requests :
         \E fresh \in {sessions[req.sessionId] = 0} :
         \E obj \in {IF fresh THEN Len(sessionObjects) + 1 ELSE sessions[req.sessionId]} :
            /\ sessionObjects' = IF fresh
                                 THEN Append(sessionObjects, NewSession(req.in.userId, clock))
                                 ELSE sessionObjects
            /\ sessions' = [sessions EXCEPT ![req.sessionId] = obj]
            /\ chats' = [chats EXCEPT ![p] =
                            [pc |-> "searching", sessionId |-> req.sessionId,
                             userId |-> req.in.userId, message |-> req.in.userMessage,
                             reply |-> req.in.reply, session |-> obj,
                             seen |-> sessionObjects'[obj].messageCount,
                             memories |-> <<>>, erased |-> FALSE]]
    /\ requestCount' = requestCount + 1
    /\ UNCHANGED <<cacheVars, extractVars, ctxVars, storeVars, totalInteractions, pending>>

ChatBegin(p) == ChatBeginWith(p, ChatRequests)

\* Mutant of ChatRetrieved: the interaction is counted before the chat model
\* has replied.
ChatRetrievedCounted(p) ==
    /\ chats[p].pc = "searching"
    /\ \E failAt \in ChatFailPoints :
         \E x \in {searchRelevantMemories(Start(failAt), chats[p].userId,
                                          chats[p].message, ChatFlowOptions)} :
         \E replied \in BOOLEAN :
            /\ Completes(x.run)
            /\ chats' = [chats EXCEPT ![p] =
                            IF replied
                            THEN [@ EXCEPT !.pc = "storing",
                                           !.memories = MemoryIds(x.memories)]
                            ELSE NoChat]
            /\ totalInteractions' = totalInteractions + (IF replied THEN 0 ELSE 1)
    /\ UNCHANGED <<sessions, sessionObjects, requestCount, pending>>

\* searchRelevantMemories resolves, the request builds the prompt and awaits
\* the chat model, and ollamaClient.chat resolves (the request goes on to await
\* addInteraction) or rejects (executeChatFlow and chat() reject).  The reply
\* touches no shared state, so both awaits are one step.
ChatRetrieved(p) ==
    /\ chats[p].pc = "searching"
    /\ \E failAt \in ChatFailPoints :
         \E x \in {searchRelevantMemories(Start(failAt), chats[p].userId,
                                          chats[p].message, ChatFlowOptions)} :
         \E replied \in BOOLEAN :
            /\ Completes(x.run)
            /\ chats' = [chats EXCEPT ![p] =
                            IF replied
                            THEN [@ EXCEPT !.pc = "storing",
                                           !.memories = MemoryIds(x.memories)]
                            ELSE NoChat]
    /\ UNCHANGED <<sessions, sessionObjects, requestCount, totalInteractions, pending>>

\* addInteraction settles: resolved, the request goes on to step 5; rejected,
\* executeChatFlow and chat() reject.
ChatStored(p) ==
    /\ chats[p].pc = "storing"
    /\ \E in \in {Interaction(chats[p].userId, chats[p].message, chats[p].reply)} :
         \E failAt \in ChatFailPoints :
            \E x \in {addInteraction(Start(failAt), in, in.reply)} :
                /\ Completes(x.run)
                /\ chats' = [chats EXCEPT ![p] = IF x.thrown THEN NoChat
                                                  ELSE [@ EXCEPT !.pc = "updating"]]
    /\ UNCHANGED <<sessions, sessionObjects, requestCount, totalInteractions, pending>>

\* Steps 5 and 6 of executeChatFlow: the session object is updated and the
\* response returned; chat() then counts the interaction in its stats.
ChatUpdated(p) ==
    /\ chats[p].pc = "updating"
    /\ sessionObjects' = [sessionObjects EXCEPT ![chats[p].session] =
                             UpdateSession(@, chats[p].seen, chats[p].memories, clock)]
    /\ totalInteractions' = totalInteractions + 1
    /\ chats' = [chats EXCEPT ![p].pc = "returned"]
    /\ UNCHANGED <<cacheVars, extractVars, ctxVars, storeVars, sessions, requestCount,
                   pending>>

\* The caller has the response; the request is over.
ChatReturns(p) ==
    /\ chats[p].pc = "returned"
    /\ chats' = [chats EXCEPT ![p] = NoChat]
    /\ UNCHANGED <<cacheVars, extractVars, ctxVars, storeVars, sessions, sessionObjects,
                   requestCount, totalInteractions, pending>>

\* clearSession(sessionId): sessions.delete(sessionId)
ClearSession(sessionId) ==
    /\ requestCount < MaxRequests
    /\ sessions' = [sessions EXCEPT ![sessionId] = 0]
    /\ requestCount' = requestCount + 1
    /\ UNCHANGED <<cacheVars, extractVars, ctxVars, storeVars, sessionObjects, chats,
                   totalInteractions, pending>>

NextSession ==
    \/ \E p \in Procs : ChatBegin(p)
    \/ \E p \in Procs : ChatRetrieved(p)
    \/ \E p \in Procs : ChatStored(p)
    \/ \E p \in Procs : ChatUpdated(p)
    \/ \E p \in Procs : ChatReturns(p)
    \/ \E s \in SessionIds : ClearSession(s)

SpecSession == InitSession /\ [][NextSession]_vars

\* The message counts of the given session objects, added up.
RECURSIVE SumMessageCounts(_)
SumMessageCounts(objs) ==
    IF objs = <<>> THEN 0 ELSE Head(objs).messageCount + SumMessageCounts(Tail(objs))

\* Request p completes successfully in this step: step 5 has run.
Completed(p) == chats[p].pc = "updating" /\ chats'[p].pc = "returned"

\* C16: a chat on a sessionId without entry creates one with messageCount 0 and
\* no recent memories; a chat that completes successfully increments the
\* messageCount of its session by exactly 1 and sets its recentMemories to the
\* first at most 3 memories retrieved for that chat (its session being the
\* entry the table held for the sessionId when the chat began); the message counts add up to the number of successful chats, so that n
\* successful chats on one session leave messageCount = n; and recentMemories
\* never holds more than 3 memories.
C16_SessionTracking ==
    /\ [](\A o \in 1..Len(sessionObjects) : Len(sessionObjects[o].recentMemories) <= 3)
    /\ [](SumMessageCounts(sessionObjects) = totalInteractions)
    /\ [][\A p \in Procs :
            (chats[p].pc = "idle" /\ chats'[p].pc = "searching")
                => /\ sessions'[chats'[p].sessionId] # 0
                   /\ chats'[p].session = sessions'[chats'[p].sessionId]]_vars
    /\ [][\A s \in SessionIds :
            (sessions[s] = 0 /\ sessions'[s] # 0)
                => /\ sessionObjects'[sessions'[s]].messageCount = 0
                   /\ sessionObjects'[sessions'[s]].recentMemories = <<>>]_vars
    /\ [][\A p \in Procs :
            Completed(p) =>
                LET before == sessionObjects[chats[p].session]
                    after == sessionObjects'[chats[p].session]
                    retrieved == chats[p].memories
                IN  /\ after.messageCount = before.messageCount + 1
                    /\ Len(after.recentMemories) = Min(3, Len(retrieved))
                    /\ \A i \in 1..Len(after.recentMemories) :
                         after.recentMemories[i] = retrieved[i]
                    /\ \A o \in 1..Len(sessionObjects) :
                         o # chats[p].session => sessionObjects'[o] = sessionObjects[o]]_vars

\* Two successful chats in a row on one session, the second of which retrieved
\* more than 3 memories: the session counts 2 messages and keeps 3 memories.
C16_Witness ==
    /\ Len(sessionObjects) = 1
    /\ sessions["s1"] = 1
    /\ sessionObjects[1].messageCount = 2
    /\ totalInteractions = 2
    /\ Len(sessionObjects[1].recentMemories) = 3
    /\ \E p \in Procs : chats[p].pc = "returned" /\ Len(chats[p].memories) > 3
    /\ \E p \in Procs : chats[p].pc = "idle"

\* Requests p and q ran concurrently on one session and both have completed
\* successfully: each looked the session up before the other updated it.
Overlapped(p, q) ==
    /\ p # q
    /\ chats[p].pc = "returned"
    /\ chats[q].pc = "returned"
    /\ chats[p].session = chats[q].session
    /\ chats[p].seen = chats[q].seen

\* C17 as stated: two concurrent chats on one session lose a message-count
\* update: when each of them looked the session up before the other updated it
\* and both have completed successfully, messageCount has grown by less than 2.
C17_LostUpdate ==
    \A p, q \in Procs :
        Overlapped(p, q) =>
            sessionObjects[chats[p].session].messageCount < chats[p].seen + 2

\* C17, amended: two concurrent chats on one session never lose a message-count
\* update: once both have completed successfully, messageCount has grown by 2
\* over the smaller of the counts they found, however their steps interleave.
C17_NoLostUpdate ==
    \A p, q \in Procs :
        ( /\ p # q
          /\ chats[p].pc = "returned"
          /\ chats[q].pc = "returned"
          /\ chats[p].session = chats[q].session )
        => sessionObjects[chats[p].session].messageCount
               >= Min(chats[p].seen, chats[q].seen) + 2

\* Two chats on one session, both begun before either updated it, have both
\* completed successfully.
C17_Witness == \E p, q \in Procs : Overlapped(p, q)

\* The requests addInteraction issued after the chat call of fact extraction:
\* "embeddings" is the embedding of a fact, "queryByEmbedding" the dedup
\* lookup, "get" the conflict lookup, "delete" the removal of the conflicting
\* memory and "add" the store write.
FactCalls ==
    LET chat == {i \in 1..Len(lastOp.trace) : lastOp.trace[i] = "chat"}
    IN  IF chat = {} THEN <<>>
        ELSE SubSeq(lastOp.trace, 1 + TheOne(chat), Len(lastOp.trace))

\* C18: within one request the calls made for an extracted fact are issued one
\* after another in the order fact extraction, embedding of the fact, dedup
\* lookup, conflict lookup, store write: after the extraction, a conflict lookup
\* directly follows a dedup lookup, a dedup lookup directly follows the
\* embedding unless the embedding was cached, and the store write follows the
\* conflict lookup or the deletion it led to.
C18_CallOrder ==
    lastOp.op = "addInteraction" =>
        \A i \in 1..Len(FactCalls) :
            /\ FactCalls[i] = "get"
                 => i > 1 /\ FactCalls[i - 1] = "queryByEmbedding"
            /\ FactCalls[i] = "queryByEmbedding"
                 => i = 1 \/ FactCalls[i - 1] \in {"embeddings", "add", "queryByEmbedding"}
            /\ FactCalls[i] = "add"
                 => i > 1 /\ FactCalls[i - 1] \in {"get", "delete"}

\* The lines of the returned block that show the memory m, and the places m
\* has in the input.
LinesOf(m) == {i \in 1..Len(ctxOut) : ctxOut[i].kind = "line" /\ ctxOut[i].mem = m}
InputsOf(m) == {i \in 1..Len(ctxMemories) : ctxMemories[i] = m}

\* The sections of the returned block are in the fixed order Customer Profile,
\* Known Issues, Feature Requests, Sentiment History, Recent Interactions.
SectionsInOrder ==
    \A i, j \in 1..Len(ctxOut) : i < j => ctxOut[i].sec <= ctxOut[j].sec

\* C19: buildContext partitions its input: every input memory is placed in at
\* most one of the five sections, so the block shows a memory no more often
\* than the input holds it, and the sections that appear are in the fixed
\* order.
C19_SectionsPartitionInput ==
    ContextBuilt =>
        /\ \A i \in 1..Len(ctxMemories) :
             Cardinality(LinesOf(ctxMemories[i])) <= Cardinality(InputsOf(ctxMemories[i]))
        /\ SectionsInOrder

(***************************************************************************)
(* Specification of erasure: deleteUserData and getRecentMemories called   *)
(* on a store, drawn by Init, that holds memories of both users.           *)
(***************************************************************************)
EraseStores == {q \in Stores : \A u \in Users : \E i \in 1..Len(q) : q[i].userId = u}

InitErase ==
    /\ CacheIdle
    /\ ExtractIdle
    /\ ContextIdle
    /\ SessionIdle
    /\ collection \in EraseStores
    /\ nextId = 7
    /\ opCount = 0
    /\ clock \in {10}
    /\ faultInjected = FALSE
    /\ lastOp = NoOp

NextErase == DeleteUserData \/ GetRecentMemories

SpecErase == InitErase /\ [][NextErase]_vars

\* The stored memories of a user, in stored order.
MemoriesOf(coll, userId) == SelectSeq(coll, LAMBDA m : m.userId = userId)

\* The run record of a call made on the store as the step leaves it.
StartAfter == [Start(0) EXCEPT !.coll = collection']

\* C20: deleteUserData(u) removes every stored memory whose userId is u and
\* leaves every other user's memories unchanged: right after it returns, the
\* count and the recent-memory list for u are empty, a getRecentMemories(u)
\* that follows it returns nothing, and the stored memories of each other user
\* are the same as before the call.
C20_EraseIsScopedToUser ==
    /\ [][Resolved("deleteUserData") =>
            /\ MemoriesOf(collection', lastOp'.userId) = <<>>
            /\ getMemoryCount(StartAfter, lastOp'.userId).count = 0
            /\ getRecentMemories(StartAfter, lastOp'.userId, 10).memories = <<>>
            /\ \A v \in Users \ {lastOp'.userId} :
                 MemoriesOf(collection', v) = MemoriesOf(collection, v)]_vars
    /\ [][( /\ lastOp.op = "deleteUserData"
            /\ lastOp.outcome = "ok"
            /\ lastOp'.op = "getRecentMemories"
            /\ lastOp'.userId = lastOp.userId
            /\ opCount' = opCount + 1 )
          => lastOp'.results = <<>>]_vars

\* deleteUserData(u) has returned on a store that held memories of u and of
\* the other user: the other user's memories are there, none of u is.
C20_Witness ==
    /\ opCount = 1
    /\ lastOp.op = "deleteUserData"
    /\ lastOp.outcome = "ok"
    /\ MemoriesOf(collection, lastOp.userId) = <<>>
    /\ collection # <<>>

(***************************************************************************)
(* Specification of isolation: every MemoryManager operation, called on a  *)
(* store, drawn by Init, that holds one memory of each user.               *)
(***************************************************************************)
IsolationStores == {q \in EraseStores : Len(q) = 2}

InitIsolation ==
    /\ CacheIdle
    /\ ExtractIdle
    /\ ContextIdle
    /\ SessionIdle
    /\ collection \in IsolationStores
    /\ nextId = 7
    /\ opCount = 0
    /\ clock = 10
    /\ faultInjected = FALSE
    /\ lastOp = NoOp

SpecIsolation == InitIsolation /\ [][NextStore]_vars

\* The step is a completed MemoryManager operation op, resolved or rejected.
Completed21(op) ==
    /\ opCount' = opCount + 1
    /\ lastOp'.op = op

\* The stored record with the given id, as a set of at most one record.
WithId(coll, id) == {m \in Records(coll) : m.id = id}

\* C21: memories are isolated per user: every memory that
\* searchRelevantMemories(u, ...) or getRecentMemories(u) returns is a stored
\* memory with userId u; an addInteraction for u, whether it resolves or
\* rejects, leaves the stored memories of every other user as they were; and
\* an addMemory for u that returns the id of a memory stored before is given
\* the id of a memory of u.
C21_UserIsolation ==
    /\ [][(Completed21("searchRelevantMemories") \/ Completed21("getRecentMemories"))
            => \A i \in 1..Len(lastOp'.results) :
                 /\ WithId(collection, lastOp'.results[i]) # {}
                 /\ \A m \in WithId(collection, lastOp'.results[i]) :
                      m.userId = lastOp'.userId]_vars
    /\ [][Completed21("addInteraction")
            => \A v \in Users \ {lastOp'.userId} :
                 MemoriesOf(collection', v) = MemoriesOf(collection, v)]_vars
    /\ [][Completed21("addMemory")
            => \A m \in WithId(collection, lastOp'.ret) :
                 m.userId = lastOp'.userId]_vars

\* An addInteraction for u2 has replaced u2's name fact on a store in which
\* u1 holds a conflicting name fact too: u1's fact is still stored.
C21_Witness ==
    /\ lastOp.op = "addInteraction"
    /\ lastOp.userId = "u2"
    /\ lastOp.outcome = "ok"
    /\ \E i \in 1..Len(lastOp.trace) : lastOp.trace[i] = "delete"
    /\ \E m \in NameFacts(collection, "u1") :
         toLowerCase(m.content) # toLowerCase(<<"User's", "name", "is", "Bob">>)
    /\ \E m \in NameFacts(collection, "u2") : m.replacedMemoryId = 5

\* Request p's call of the chat model rejects in this step: the search had
\* resolved, and executeChatFlow and chat() reject.
ReplyFails(p) == chats[p].pc = "searching" /\ chats'[p].pc = "idle"

CategoryCandidates ==
    LET cands == CollectionQuery(collection, ProviderEmbedding(<<>>), lastOp.userId, 40)
    IN  {cands[i].item.id : i \in {j \in 1..Len(cands) :
                                     cands[j].item.category = lastOp.options.category}}

\* C23: getMemoriesByCategory(userId, category) applies a relevance threshold
\* of 0: when no request fails it returns every memory of that category among
\* the 40 nearest candidates, up to 20, and nothing else.
C23_CategoryListingKeepsAll ==
    (lastOp.op = "getMemoriesByCategory" /\ ~lastOp.failed) =>
        LET returned == {lastOp.results[i] : i \in 1..Len(lastOp.results)}
        IN  /\ returned \subseteq CategoryCandidates
            /\ Cardinality(returned) = Min(20, Cardinality(CategoryCandidates))

\* The records the step has added to the store.
Inserted24 == {n \in Records(collection') : n.id \notin {m.id : m \in Records(collection)}}

\* C24: a conflict replacement never leaves the user with neither fact: when
\* storing a fact found a conflicting old memory and no new record was
\* inserted, because the insertion failed or was skipped as a near-duplicate
\* of some other memory, the old memory is still in the store.
C24_OldFactKeptUnlessReplaced ==
    [][(opCount' = opCount + 1 /\ lastOp'.op = "storeFact")
        => (Inserted24 = {} => Deleted = {})]_vars

\* C25: conflict resolution only deletes a memory whose own type is preference
\* or extracted_fact; it never deletes an event, sentiment or conversation
\* memory.
C25_OnlyFactsAreReplaced ==
    [][(opCount' = opCount + 1 /\ lastOp'.op = "storeFact")
        => \A m \in Deleted : m.type \in {"preference", "extracted_fact"}]_vars

(***************************************************************************)
(* Specification of concurrent addMemory calls.  A call suspends at each   *)
(* await: the embedding (a provider request on a cache miss), the          *)
(* duplicate lookup (a collection.query) and the insertion (a              *)
(* collection.add).  The collection answers each request atomically, at    *)
(* the step that settles it; the code between two awaits runs in one step. *)
(***************************************************************************)
\* Memories handed to the concurrent calls.
RaceInputs ==
    { MemoryInput("u1", <<"User's", "name", "is", "Alice">>, "preference", 90),
      MemoryInput("u2", <<"User's", "name", "is", "Alice">>, "preference", 90),
      MemoryInput("u1", <<"User's", "name", "is", "Bob">>, "preference", 90) }

InitRace ==
    /\ CacheIdle
    /\ ExtractIdle
    /\ ContextIdle
    /\ SessionIdle
    /\ StoreIdle

\* Whether the request that settles in this step fails (at most one does).
RequestOutcomes == IF faultInjected THEN {TRUE} ELSE BOOLEAN

\* addMemory(memory) is called with one of the given memories: the id is
\* drawn and generateEmbedding runs up to its await: on a cache hit it returns
\* the cached vector, on a miss it has sent the provider request.
AddMemoryBeginWith(p, inputs) ==
    /\ pending[p].pc = "idle"
    /\ requestCount < MaxRequests
    /\ \E m \in inputs :
         \E cached \in {MapGet(embeddingCache, getCacheKey(m.content))} :
            /\ stats' = IF cached # "undefined"
                        THEN [stats EXCEPT !.totalEmbeddings = @ + 1, !.cacheHits = @ + 1]
                        ELSE [stats EXCEPT !.totalEmbeddings = @ + 1, !.cacheMisses = @ + 1]
            /\ providerCalls' = IF cached # "undefined" THEN providerCalls
                                ELSE providerCalls + 1
            /\ pending' = [pending EXCEPT ![p] =
                    [pc |-> IF cached # "undefined" THEN "lookup" ELSE "embedding",
                     op |-> "addMemory",
                     memory |-> VectorMemory(m, nextId, clock),
                     text |-> 0,
                     vec |-> IF cached # "undefined" THEN cached ELSE <<>>,
                     ret |-> 0, thrown |-> FALSE]]
    /\ nextId' = nextId + 1
    /\ requestCount' = requestCount + 1
    /\ UNCHANGED <<embeddingCache, callLog, extractVars, ctxVars, collection, opCount, clock,
                   faultInjected, lastOp, sessions, sessionObjects, chats,
                   totalInteractions>>

AddMemoryBegin(p) == AddMemoryBeginWith(p, RaceInputs)

\* The provider request settles: the vector is cached and the duplicate
\* lookup is sent, or generateEmbedding and addMemory reject.
AddMemoryEmbedded(p) ==
    /\ pending[p].pc = "embedding"
    /\ \E ok \in RequestOutcomes :
         /\ embeddingCache' =
                IF ok THEN cacheEmbedding(embeddingCache, pending[p].memory.content,
                                          ProviderEmbedding(pending[p].memory.content))
                ELSE embeddingCache
         /\ pending' = [pending EXCEPT ![p] =
                IF ok THEN [@ EXCEPT !.pc = "lookup",
                                     !.vec = ProviderEmbedding(pending[p].memory.content)]
                ELSE [@ EXCEPT !.pc = "done", !.thrown = TRUE]]
         /\ faultInjected' = (faultInjected \/ ~ok)
    /\ UNCHANGED <<stats, providerCalls, callLog, extractVars, ctxVars, collection, nextId,
                   opCount, clock, lastOp, sessions, sessionObjects, chats, requestCount,
                   totalInteractions>>

\* The duplicate lookup settles (a failed one counts as no duplicate): the call
\* returns the nearest memory's id, or sends the insertion.
AddMemoryLookedUp(p) ==
    /\ pending[p].pc = "lookup"
    /\ \E ok \in RequestOutcomes :
         \E d \in {findSimilarMemories(Start(IF ok THEN 0 ELSE 1),
                                        [userId |-> pending[p].memory.userId,
                                         embedding |-> pending[p].vec])} :
            /\ pending' = [pending EXCEPT ![p] =
                    IF IsDuplicate(d.results)
                    THEN [@ EXCEPT !.pc = "done", !.ret = d.results[1].memory.id]
                    ELSE [@ EXCEPT !.pc = "storing"]]
            /\ faultInjected' = (faultInjected \/ ~ok)
    /\ UNCHANGED <<cacheVars, extractVars, ctxVars, collection, nextId, opCount, clock,
                   lastOp, sessions, sessionObjects, chats, requestCount,
                   totalInteractions>>

\* The insertion settles: addMemory returns its id, or rejects.
AddMemoryStored(p) ==
    /\ pending[p].pc = "storing"
    /\ \E ok \in RequestOutcomes :
         \E a \in {vectorStoreAddMemory(Start(IF ok THEN 0 ELSE 1), pending[p].memory)} :
            /\ collection' = a.run.coll
            /\ pending' = [pending EXCEPT ![p] =
                    IF a.thrown THEN [@ EXCEPT !.pc = "done", !.thrown = TRUE]
                    ELSE [@ EXCEPT !.pc = "done", !.ret = pending[p].memory.id]]
            /\ faultInjected' = (faultInjected \/ ~ok)
    /\ UNCHANGED <<cacheVars, extractVars, ctxVars, nextId, opCount, clock, lastOp,
                   sessions, sessionObjects, chats, requestCount, totalInteractions>>

\* The caller has the result; the call is over.
AddMemoryReturns(p) ==
    /\ pending[p].pc = "done"
    /\ pending' = [pending EXCEPT ![p] = NoCall]
    /\ UNCHANGED <<cacheVars, extractVars, ctxVars, storeVars, sessions, sessionObjects,
                   chats, requestCount, totalInteractions>>

NextRace ==
    \/ \E p \in Procs : AddMemoryBegin(p)
    \/ \E p \in Procs : AddMemoryEmbedded(p)
    \/ \E p \in Procs : AddMemoryLookedUp(p)
    \/ \E p \in Procs : AddMemoryStored(p)
    \/ \E p \in Procs : AddMemoryReturns(p)

SpecRace == InitRace /\ [][NextRace]_vars

\* Calls p and q have both resolved, for the same content and the same user.
BothAdded(p, q) ==
    /\ p # q
    /\ pending[p].pc = "done" /\ ~pending[p].thrown
    /\ pending[q].pc = "done" /\ ~pending[q].thrown
    /\ pending[p].memory.userId = pending[q].memory.userId
    /\ pending[p].memory.content = pending[q].memory.content

\* C26: for every interleaving of two addMemory calls with the same content
\* for the same user, once both have resolved the store holds exactly one
\* record of that user with that content and both calls have returned the same
\* id.
C26_ConcurrentAddsStoreOnce ==
    \A p, q \in Procs :
        BothAdded(p, q) =>
            /\ pending[p].ret = pending[q].ret
            /\ Cardinality({m \in Records(collection) :
                                /\ m.userId = pending[p].memory.userId
                                /\ m.content = pending[p].memory.content}) = 1

(***************************************************************************)
(* Specification of the chat flow with two users: chats of both users on   *)
(* one sessionId, and deleteUserData called while chats are in flight.     *)
(***************************************************************************)
\* Requests of two users that name the same session.
SharedRequests ==
    { ChatRequest("s1", Interaction("u1", <<"My", "name", "is", "Alice">>, ChatError)),
      ChatRequest("s1", Interaction("u2", <<"My", "name", "is", "Bob">>,
                                    ChatArray(<<BobRaw>>))) }

ChatBeginShared(p) == ChatBeginWith(p, SharedRequests)

\* DELETE /memories/:userId: deleteUserData(u) settles; the collection
\* carries out the delete in one step.  Counts as a request.
EraseUser(u) ==
    /\ requestCount < MaxRequests
    /\ \E failAt \in ChatFailPoints :
         \E x \in {deleteUserData(Start(failAt), u)} :
            /\ Completes(x.run)
            /\ chats' = [p \in Procs |->
                            IF ~x.thrown /\ chats[p].pc # "idle" /\ chats[p].userId = u
                            THEN [chats[p] EXCEPT !.erased = TRUE]
                            ELSE chats[p]]
    /\ requestCount' = requestCount + 1
    /\ UNCHANGED <<sessions, sessionObjects, totalInteractions, pending>>

NextTenants ==
    \/ \E p \in Procs : ChatBeginShared(p)
    \/ \E p \in Procs : ChatRetrieved(p)
    \/ \E p \in Procs : ChatStored(p)
    \/ \E p \in Procs : ChatUpdated(p)
    \/ \E p \in Procs : ChatReturns(p)
    \/ \E u \in Users : EraseUser(u)

SpecTenants == InitSession /\ [][NextTenants]_vars

\* The records of user u that the step adds to the store.
Written(u) ==
    {n \in Records(collection') :
        n.userId = u /\ n.id \notin {m.id : m \in Records(collection)}}

\* C27: once deleteUserData(u) has returned, the store holds no memory of u
\* until a chat for u that started after the deletion writes one: a memory of
\* u is written only by the addInteraction of a chat for u that was not in
\* flight when a deleteUserData(u) returned, so a chat in flight at the
\* deletion does not re-create memories.
C27_ErasedStaysErased ==
    [][\A u \in Users :
        Written(u) # {} =>
            \E p \in Procs :
                /\ chats[p].pc = "storing"
                /\ chats'[p].pc # "storing"
                /\ chats[p].userId = u
                /\ ~chats[p].erased]_vars

\* The memories with the given id that the store holds or held at the start.
KnownById(id) == {m \in Records(collection) \cup Records(SessionStore) : m.id = id}

\* C28: each memory in a session's recentMemories has the userId of the
\* session, also when chats of different users name the same sessionId.
C28_RecentMemoriesBelongToSessionUser ==
    \A o \in 1..Len(sessionObjects) :
        \A i \in 1..Len(sessionObjects[o].recentMemories) :
            \A m \in KnownById(sessionObjects[o].recentMemories[i]) :
                m.userId = sessionObjects[o].userId

(***************************************************************************)
(* Specification of the index: addMemory called with memories whose        *)
(* metadata map names fields of the memory, or whose importance is 0.      *)
(***************************************************************************)
\* A memory input with a metadata map.
WithMetadata(memory, metadata) == memory @@ [metadata |-> metadata]

\* Memories handed to addMemory: without metadata, with importance 0, and with
\* metadata maps that have the key userId, importance or type, or only keys
\* that name no field of the memory.
IndexInputs ==
    { MemoryInput("u1", <<"User's", "name", "is", "Alice">>, "preference", 90),
      MemoryInput("u1", <<"Login", "is", "broken">>, "event", 0),
      WithMetadata(MemoryInput("u1", <<"User's", "name", "is", "Bob">>, "preference", 90),
                   [userId |-> "u2"]),
      WithMetadata(MemoryInput("u2", <<"User's", "name", "is", "Al">>, "preference", 90),
                   [importance |-> 10, type |-> "conversation"]),
      WithMetadata(MemoryInput("u2", <<"User's", "name", "is", "Bob">>, "preference", 80),
                   [extractedFrom |-> "llm"]) }

AddMemoryBeginIndexed(p) == AddMemoryBeginWith(p, IndexInputs)

NextIndex ==
    \/ \E p \in Procs : AddMemoryBeginIndexed(p)
    \/ \E p \in Procs : AddMemoryEmbedded(p)
    \/ \E p \in Procs : AddMemoryLookedUp(p)
    \/ \E p \in Procs : AddMemoryStored(p)
    \/ \E p \in Procs : AddMemoryReturns(p)

SpecIndex == InitRace /\ [][NextIndex]_vars

\* The fields the index records beside the document.
IndexedFields == {"userId", "type", "category", "timestamp", "importance"}

\* Call p has inserted its memory and not yet returned.
InsertedBy(p) ==
    /\ pending[p].pc = "done"
    /\ ~pending[p].thrown
    /\ pending[p].ret = pending[p].memory.id

\* What getUserMemories gives for the memory's user, as a set.
ReadBack(memory) ==
    LET g == getUserMemories(Start(0), memory.userId)
    IN  {g.memories[i] : i \in {j \in 1..Len(g.memories) : g.memories[j].id = memory.id}}

\* C29: the userId, type, category, timestamp and importance recorded in the
\* index always equal the memory's own fields, whatever keys its metadata map
\* contains, and reading the memory back returns the same values.
C29_IndexMatchesMemory ==
    \A p \in Procs :
        InsertedBy(p) =>
            /\ \E m \in WithId(collection, pending[p].memory.id) :
                  \A k \in IndexedFields : m[k] = pending[p].memory[k]
            /\ \E m \in ReadBack(pending[p].memory) :
                  \A k \in IndexedFields : m[k] = pending[p].memory[k]

(***************************************************************************)
(* Specification of concurrent generateEmbedding calls (generateEmbeddings *)
(* starts them with Promise.all; concurrent requests do too).  A call that *)
(* misses the cache suspends at the provider request; the cache lookup     *)
(* before it and cacheEmbedding after it each run in one step.             *)
(***************************************************************************)
\* generateEmbedding(text) is called: a hit returns the cached vector at once,
\* a miss sends the provider request.
EmbedBegin(p) ==
    /\ pending[p].pc = "idle"
    /\ requestCount < MaxCalls
    /\ \E t \in Texts :
         \E cached \in {MapGet(embeddingCache, getCacheKey(t))} :
            IF cached # "undefined"
            THEN /\ stats' = [stats EXCEPT !.totalEmbeddings = @ + 1, !.cacheHits = @ + 1]
                 /\ embeddingCache' = CacheRead(embeddingCache, getCacheKey(t))
                 /\ UNCHANGED <<providerCalls, pending>>
            ELSE /\ stats' = [stats EXCEPT !.totalEmbeddings = @ + 1, !.cacheMisses = @ + 1]
                 /\ providerCalls' = providerCalls + 1
                 /\ pending' = [pending EXCEPT ![p] =
                        [NoCall EXCEPT !.pc = "embedding", !.op = "generateEmbedding",
                                       !.text = t]]
                 /\ UNCHANGED embeddingCache
    /\ requestCount' = requestCount + 1
    /\ UNCHANGED <<callLog, extractVars, ctxVars, storeVars, sessions, sessionObjects, chats,
                   totalInteractions>>

\* The provider request settles: the vector is cached and returned, or the
\* call throws.
EmbedSettled(p) ==
    /\ pending[p].pc = "embedding"
    /\ pending[p].op = "generateEmbedding"
    /\ \E ok \in RequestOutcomes :
         /\ embeddingCache' =
                IF ok THEN cacheEmbedding(embeddingCache, pending[p].text,
                                          ProviderEmbedding(pending[p].text))
                ELSE embeddingCache
         /\ faultInjected' = (faultInjected \/ ~ok)
    /\ pending' = [pending EXCEPT ![p] = NoCall]
    /\ UNCHANGED <<stats, providerCalls, callLog, extractVars, ctxVars, collection, nextId,
                   opCount, clock, lastOp, sessions, sessionObjects, chats, requestCount,
                   totalInteractions>>

NextCacheRace ==
    \/ \E p \in Procs : EmbedBegin(p)
    \/ \E p \in Procs : EmbedSettled(p)

SpecCacheRace == InitCache /\ [][NextCacheRace]_vars

\* The keys the step removes from the cache, and the keys it adds.
Evicted == {embeddingCache[i].key : i \in 1..Len(embeddingCache)}
               \ {embeddingCache'[i].key : i \in 1..Len(embeddingCache')}
Added == {embeddingCache'[i].key : i \in 1..Len(embeddingCache')}
             \ {embeddingCache[i].key : i \in 1..Len(embeddingCache)}

\* C30: a cache entry is evicted only when a key not yet in the cache is
\* stored into a full cache, so storing for a key already present evicts
\* nothing; the size never exceeds the capacity and, once it has reached the
\* capacity, never drops below it.
C30_EvictionOnlyForNewKey ==
    /\ [](Len(embeddingCache) <= CacheCapacity)
    /\ [][Evicted # {} => (Len(embeddingCache) = CacheCapacity /\ Added # {})]_vars
    /\ [][Len(embeddingCache) = CacheCapacity
            => Len(embeddingCache') = CacheCapacity]_vars

====
